---------------------------- MODULE Spec2Model ----------------------------
(***************************************************************************)
(* A model of prickly, the terminal editor for prc parameter files.        *)
(*                                                                         *)
(* The App of src/comp/app.rs owns the document (base), the tree view of   *)
(* the current level (tail), the stack of levels left behind (route), the  *)
(* name filter and the unsaved flag.  Every key event is one call of       *)
(* App::handle_event, and every action below is one such call.             *)
(*                                                                         *)
(* Text is a sequence of one-character strings, so that typing, deleting,  *)
(* formatting and parsing work on characters as the code does.  Indices    *)
(* and selections are 0-based as in the code; Nth turns them into          *)
(* positions of a TLA+ sequence.                                           *)
(***************************************************************************)
EXTENDS Integers, Sequences, FiniteSets, TLC

(***************************************************************************)
(* Bounds of the model.                                                    *)
(***************************************************************************)
\* longest text typed into the value editor of the tree
MaxEditLen == 2
\* longest text typed into the filter box
MaxFilterLen == 2
\* furthest candidate the cursor of the hash editor is moved down to
MaxCursor == 3

\* characters typed while a value is being edited
EditChars == {"9", "-"}
\* characters typed into the filter box
FilterChars == {"b", "("}

(***************************************************************************)
(* Text.                                                                   *)
(***************************************************************************)
Digits == {"0", "1", "2", "3", "4", "5", "6", "7", "8", "9"}

DigitVal(c) ==
    CASE c = "0" -> 0 [] c = "1" -> 1 [] c = "2" -> 2 [] c = "3" -> 3
      [] c = "4" -> 4 [] c = "5" -> 5 [] c = "6" -> 6 [] c = "7" -> 7
      [] c = "8" -> 8 [] c = "9" -> 9

DigitChar(d) ==
    CASE d = 0 -> "0" [] d = 1 -> "1" [] d = 2 -> "2" [] d = 3 -> "3"
      [] d = 4 -> "4" [] d = 5 -> "5" [] d = 6 -> "6" [] d = 7 -> "7"
      [] d = 8 -> "8" [] d = 9 -> "9"

\* the element at 0-based position i
Nth(s, i) == s[i + 1]

\* s with its 0-based position i replaced by x
SetNth(s, i, x) == [s EXCEPT ![i + 1] = x]

\* String::pop: the text without its last character (nothing to do when empty)
Pop(s) == IF Len(s) = 0 THEN s ELSE SubSeq(s, 1, Len(s) - 1)

\* the decimal digits of a natural number, most significant first
RECURSIVE NatText(_)
NatText(n) ==
    IF n < 10 THEN <<DigitChar(n)>>
    ELSE NatText(n \div 10) \o <<DigitChar(n % 10)>>

\* IntText as it would be if the sign were left out
IntText_unsigned(n) ==
    IF n >= 0 THEN NatText(n)
    ELSE LET m == n % 10
             last == (10 - m) % 10
             rest == -(n \div 10) - (IF m = 0 THEN 0 ELSE 1)
         IN  (IF rest = 0 THEN <<>> ELSE NatText(rest)) \o <<DigitChar(last)>>

\* format!("{}", v) of an integer; for a negative number the digits are
\* those of its magnitude, which need not be a number of the same width
IntText(n) ==
    IF n >= 0 THEN NatText(n)
    ELSE LET m == n % 10
             last == (10 - m) % 10
             rest == -(n \div 10) - (IF m = 0 THEN 0 ELSE 1)
         IN  <<"-">> \o (IF rest = 0 THEN <<>> ELSE NatText(rest)) \o <<DigitChar(last)>>

\* format!("{}", v) of a bool
BoolText(b) == IF b THEN <<"t", "r", "u", "e">> ELSE <<"f", "a", "l", "s", "e">>

AllDigits(s) == \A i \in 1..Len(s) : s[i] \in Digits

(***************************************************************************)
(* str::parse for the value types.  A result is [ok, n] for integers and   *)
(* [ok, b] for bool.  Integer parsing (core::num, radix 10) fails on the   *)
(* empty text and on a lone sign, takes a leading '+', takes a leading '-' *)
(* for the signed types only, fails on any character that is no digit, and *)
(* builds the number digit by digit with checked_mul(10) and checked_add   *)
(* (checked_sub for a negative number): it fails as soon as a step leaves  *)
(* the type.                                                               *)
(*                                                                         *)
(* A number is an integer of the model, but for U32, whose numbers do not  *)
(* all fit 32 signed bits, the integers of TLC: a U32 is the pair [hi, lo] *)
(* of the number divided by WideBase and the remainder.                    *)
(***************************************************************************)
IntKinds == {"I8", "U8", "I16", "U16", "I32", "U32"}
SignedKinds == {"I8", "I16", "I32"}

\* IntMax as it would be if every integer type had the widest range
IntMax_widest(kind) == 2147483647

IntMax(kind) ==
    CASE kind = "I8" -> 127 [] kind = "U8" -> 255
      [] kind = "I16" -> 32767 [] kind = "U16" -> 65535
      [] kind = "I32" -> 2147483647

IntMin(kind) == IF kind \in SignedKinds THEN -IntMax(kind) - 1 ELSE 0

WideBase == 100000
\* u32::MAX = 4294967295
WideMaxHi == 42949
WideMaxLo == 67295

Wide(hi, lo) == [hi |-> hi, lo |-> lo]

\* checked_mul(10) then checked_add(d) on a U32
WideStep(w, d) ==
    LET low == w.lo * 10 + d
        next == Wide(w.hi * 10 + low \div WideBase, low % WideBase)
    IN  [ok |-> \/ next.hi < WideMaxHi
                \/ next.hi = WideMaxHi /\ next.lo <= WideMaxLo,
         n |-> next]

\* checked_mul(10) then checked_add(d) on a number that is not negative
PosStep(kind, acc, d) ==
    LET ok == acc <= IntMax(kind) \div 10 /\ acc * 10 <= IntMax(kind) - d
    IN  [ok |-> ok, n |-> IF ok THEN acc * 10 + d ELSE acc]

\* checked_mul(10) then checked_sub(d) on a number that is not positive
NegStep(kind, acc, d) ==
    LET ok == acc >= -(IntMax(kind) \div 10) /\ acc * 10 + IntMax(kind) >= d - 1
    IN  [ok |-> ok, n |-> IF ok THEN acc * 10 - d ELSE acc]

\* the digits are taken one by one, from the first
RECURSIVE Accumulate(_, _, _, _)
Accumulate(kind, neg, digits, acc) ==
    IF Len(digits) = 0 THEN [ok |-> TRUE, n |-> acc]
    ELSE IF Head(digits) \notin Digits THEN [ok |-> FALSE, n |-> acc]
    ELSE LET d == DigitVal(Head(digits))
             step == IF kind = "U32" THEN WideStep(acc, d)
                     ELSE IF neg THEN NegStep(kind, acc, d)
                     ELSE PosStep(kind, acc, d)
         IN  IF step.ok THEN Accumulate(kind, neg, Tail(digits), step.n)
             ELSE [ok |-> FALSE, n |-> acc]

Zero(kind) == IF kind = "U32" THEN Wide(0, 0) ELSE 0

ParseInt(kind, text) ==
    IF Len(text) = 0 THEN [ok |-> FALSE, n |-> Zero(kind)]
    ELSE IF text[1] \in {"+", "-"} /\ Len(text) = 1 THEN [ok |-> FALSE, n |-> Zero(kind)]
    ELSE LET neg == text[1] = "-" /\ kind \in SignedKinds
             digits == IF text[1] = "+" \/ neg THEN Tail(text) ELSE text
             r == Accumulate(kind, neg, digits, Zero(kind))
         IN  IF r.ok THEN r ELSE [ok |-> FALSE, n |-> Zero(kind)]

ParseBool(text) ==
    IF text = BoolText(TRUE) THEN [ok |-> TRUE, b |-> TRUE]
    ELSE IF text = BoolText(FALSE) THEN [ok |-> TRUE, b |-> FALSE]
    ELSE [ok |-> FALSE, b |-> FALSE]

(***************************************************************************)
(* The document: ParamKind.  A node is [k, n] for the integer kinds,       *)
(* [k, b] for Bool, [k, s] for Str, [k, c] for List (c the children) and   *)
(* [k, c] for Struct (c the pairs [h, p] of key and child; a key is the    *)
(* text its Hash40 displays as).                                           *)
(***************************************************************************)
PBool(b) == [k |-> "Bool", b |-> b]
PInt(kind, n) == [k |-> kind, n |-> n]
PStr(s) == [k |-> "Str", s |-> s]
PList(c) == [k |-> "List", c |-> c]
PStruct(c) == [k |-> "Struct", c |-> c]
Entry(h, p) == [h |-> h, p |-> p]

is_parent(param) == param.k \in {"Struct", "List"}

\* the number of children of a composite
NumKids(param) == Len(param.c)

\* the child at 0-based index i of a composite
Kid(param, i) ==
    IF param.k = "Struct" THEN Nth(param.c, i).p ELSE Nth(param.c, i)

\* the composite with its child at 0-based index i replaced
SetKid(param, i, child) ==
    IF param.k = "Struct"
    THEN [param EXCEPT !.c = SetNth(param.c, i, [Nth(param.c, i) EXCEPT !.p = child])]
    ELSE [param EXCEPT !.c = SetNth(param.c, i, child)]


(***************************************************************************)
(* The Regex of the filter.  The patterns typed here are made of literal   *)
(* characters and parentheses: Regex::new fails on unbalanced parentheses, *)
(* and a pattern matches a name when its literal characters occur in the   *)
(* name as one contiguous piece (a regex match is unanchored).  A regex    *)
(* is [ok, pat]: Ok(pattern) or Err.                                       *)
(***************************************************************************)
RECURSIVE Balanced(_, _)
Balanced(text, depth) ==
    IF Len(text) = 0 THEN depth = 0
    ELSE IF Head(text) = "(" THEN Balanced(Tail(text), depth + 1)
    ELSE IF Head(text) = ")" THEN depth > 0 /\ Balanced(Tail(text), depth - 1)
    ELSE Balanced(Tail(text), depth)

RECURSIVE Literal(_)
Literal(text) ==
    IF Len(text) = 0 THEN <<>>
    ELSE IF Head(text) \in {"(", ")"} THEN Literal(Tail(text))
    ELSE <<Head(text)>> \o Literal(Tail(text))

RegexNew(text) ==
    IF Balanced(text, 0) THEN [ok |-> TRUE, pat |-> text]
    ELSE [ok |-> FALSE, pat |-> <<>>]

Contains(name, piece) ==
    \E i \in 0..(Len(name) - Len(piece)) :
        SubSeq(name, i + 1, i + Len(piece)) = piece

is_match(regex, name) == Contains(name, Literal(regex.pat))

(***************************************************************************)
(* TreeData: the rows of one level (src/comp/tree/tree_data.rs).           *)
(***************************************************************************)
ChildrenText(n) ==
    <<"(">> \o NatText(n) \o <<" ", "c", "h", "i", "l", "d", "r", "e", "n", ")">>

\* the digits of lo at full width, after the digits of hi
RECURSIVE PadText(_, _)
PadText(lo, width) ==
    IF width = 0 THEN <<>>
    ELSE PadText(lo \div 10, width - 1) \o <<DigitChar(lo % 10)>>

\* format!("{}", v) of a U32
WideText(w) == IF w.hi = 0 THEN NatText(w.lo) ELSE NatText(w.hi) \o PadText(w.lo, 5)

get_value(param) ==
    CASE param.k = "Bool" -> BoolText(param.b)
      [] param.k = "U32" -> WideText(param.n)
      [] param.k \in IntKinds -> IntText(param.n)
      [] param.k = "Str" -> param.s
      [] param.k \in {"List", "Struct"} -> ChildrenText(NumKids(param))

\* RowKind::from_param: the row kind has the name of the param kind
from_param(param) == param.k

is_number(kind) == kind \in IntKinds \cup {"Float"}

is_incremental(kind) == IF kind = "Bool" THEN TRUE ELSE is_number(kind)

\* the name of the child at 0-based index i: the key of a struct entry,
\* the index of a list element
RowName(param, i) ==
    IF param.k = "Struct" THEN Nth(param.c, i).h ELSE NatText(i)

TreeRow(param, i) ==
    [index     |-> i,
     name      |-> RowName(param, i),
     kind      |-> from_param(Kid(param, i)),
     value     |-> get_value(Kid(param, i)),
     is_parent |-> is_parent(Kid(param, i))]

\* TreeData::new, for a Struct or a List (anything else panics: see CanTree)
TreeDataNew(param) ==
    [rows |-> [j \in 1..NumKids(param) |-> TreeRow(param, j - 1)],
     kind |-> param.k]

CanTree(param) == is_parent(param)

\* Retain as it would be if the row after a row removed were passed over
RECURSIVE Retain_skipping(_, _)
Retain_skipping(rows, regex) ==
    IF Len(rows) = 0 THEN <<>>
    ELSE IF is_match(regex, Head(rows).name)
         THEN <<Head(rows)>> \o Retain_skipping(Tail(rows), regex)
         ELSE IF Len(rows) = 1 THEN <<>>
         ELSE <<rows[2]>> \o Retain_skipping(Tail(Tail(rows)), regex)

\* Vec::retain: the rows the predicate keeps, in their order
RECURSIVE Retain(_, _)
Retain(rows, regex) ==
    IF Len(rows) = 0 THEN <<>>
    ELSE IF is_match(regex, Head(rows).name)
         THEN <<Head(rows)>> \o Retain(Tail(rows), regex)
         ELSE Retain(Tail(rows), regex)

\* apply_filter as it would be if the rows that are kept were numbered anew
apply_filter_renumbered(data, regex) ==
    IF regex.ok
    THEN LET kept == Retain(data.rows, regex)
         IN  [data EXCEPT !.rows = [j \in 1..Len(kept) |-> [kept[j] EXCEPT !.index = j - 1]]]
    ELSE data

\* TreeData::apply_filter; the filter is Filter::regex(): Some(regex) when
\* the regex is Ok, None when it is Err
apply_filter(data, regex) ==
    IF regex.ok THEN [data EXCEPT !.rows = Retain(data.rows, regex)] ELSE data

(***************************************************************************)
(* Events.  An event is a key: [code, c, ctrl, shift], c the character of  *)
(* a Char key.                                                             *)
(***************************************************************************)
Key(code) == [code |-> code, c |-> "", ctrl |-> FALSE, shift |-> FALSE]
CharKey(c) == [code |-> "Char", c |-> c, ctrl |-> FALSE, shift |-> FALSE]
CtrlKey(c) == [code |-> "Char", c |-> c, ctrl |-> TRUE, shift |-> FALSE]
ShiftKey(code) == [code |-> code, c |-> "", ctrl |-> FALSE, shift |-> TRUE]

(***************************************************************************)
(* Input: the one-line text box (src/comp/input.rs).  error is "None" or   *)
(* the message of Some(message).                                           *)
(***************************************************************************)
InputDefault == [value |-> <<>>, error |-> "None", focused |-> FALSE]

\* Input::handle_event: the input after the event, and the response
InputHandle(input, event) ==
    CASE event.code = "Char" ->
            [input |-> [input EXCEPT !.value = Append(@, event.c)], resp |-> "Edited"]
      [] event.code = "Backspace" ->
            [input |-> [input EXCEPT !.value = Pop(@)], resp |-> "Edited"]
      [] event.code = "Enter" -> [input |-> input, resp |-> "Submit"]
      [] event.code = "Esc" -> [input |-> input, resp |-> "Cancel"]
      [] OTHER -> [input |-> input, resp |-> "None"]

(***************************************************************************)
(* Tree: the view of one level (src/comp/tree/mod.rs).  selection is the   *)
(* selected row of the TableState: Tree::new selects Some(0) and every     *)
(* later write selects Some(row), so it is a number.  editing is           *)
(* Option<Input>: [some, input].                                           *)
(***************************************************************************)
NoEditing == [some |-> FALSE, input |-> InputDefault]

TreeNew(param, regex) ==
    [data      |-> apply_filter(TreeDataNew(param), regex),
     selection |-> 0,
     focused   |-> TRUE,
     editing   |-> NoEditing]

new_with_state(param, regex, state) ==
    [data      |-> apply_filter(TreeDataNew(param), regex),
     selection |-> state,
     focused   |-> TRUE,
     editing   |-> NoEditing]

\* Tree::index
TreeIndex(tree) == tree.selection

\* Tree::current_row is rows.get(index): Some(row) when the index is a row
HasRow(tree) == TreeIndex(tree) < Len(tree.data.rows)
current_row(tree) == Nth(tree.data.rows, TreeIndex(tree))

\* the 0-based position of the first row with source index `index`, or -1
RowPosition(rows, index) ==
    IF \E j \in 1..Len(rows) : rows[j].index = index
    THEN (CHOOSE j \in 1..Len(rows) :
              /\ rows[j].index = index
              /\ \A i \in 1..(j - 1) : rows[i].index # index) - 1
    ELSE -1

\* select_param_index as it would be if the selection stayed on its row
select_param_index_by_position(tree, index) == tree

select_param_index(tree, index) ==
    LET pos == RowPosition(tree.data.rows, index)
    IN  [tree EXCEPT !.selection = IF pos >= 0 THEN pos ELSE 0]

start_editing(tree) ==
    [tree EXCEPT !.editing = [some |-> TRUE,
                              input |-> [InputDefault EXCEPT !.focused = TRUE]]]

\* set_editing_error as it would be if the message were dropped
set_editing_error_dropped(tree, error) == tree

set_editing_error(tree, error) ==
    IF tree.editing.some THEN [tree EXCEPT !.editing.input.error = error] ELSE tree

finish_editing(tree) == [tree EXCEPT !.editing = NoEditing]

\* param_index as it would be if it were the position of the selected row
param_index_by_position(tree) == TreeIndex(tree)

\* Tree::param_index: the source index of the selected row (when there is one)
param_index(tree) == current_row(tree).index

\* Tree::editing_data is Some when an editor is open and a row is selected
HasEditingData(tree) == tree.editing.some /\ HasRow(tree)

\* cancel_editing as it would be if the editor were kept
cancel_editing_kept(tree) == tree

\* InputResponse::Cancel in Tree::handle_event: the editor is dropped
cancel_editing(tree) == [tree EXCEPT !.editing = NoEditing]

\* Tree::inc as it would be if it stopped at the last row
TreeInc_stopping(tree) ==
    IF Len(tree.data.rows) = 0 THEN [tree EXCEPT !.selection = 0]
    ELSE IF TreeIndex(tree) >= Len(tree.data.rows) - 1 THEN tree
    ELSE [tree EXCEPT !.selection = TreeIndex(tree) + 1]

TreeInc(tree) ==
    IF Len(tree.data.rows) = 0 \/ TreeIndex(tree) >= Len(tree.data.rows) - 1
    THEN [tree EXCEPT !.selection = 0]
    ELSE [tree EXCEPT !.selection = TreeIndex(tree) + 1]

TreeDec(tree) ==
    IF Len(tree.data.rows) = 0 THEN [tree EXCEPT !.selection = 0]
    ELSE IF TreeIndex(tree) = 0 THEN [tree EXCEPT !.selection = Len(tree.data.rows) - 1]
    ELSE [tree EXCEPT !.selection = TreeIndex(tree) - 1]

TreeResp(tree, resp) == [tree |-> tree, resp |-> resp, index |-> 0, value |-> <<>>]

\* a tree whose editor lets Esc through to the App
TreeHandle_leak(tree, event) ==
    IF HasEditingData(tree) THEN
        LET r == InputHandle(tree.editing.input, event)
            edited == [tree EXCEPT !.editing.input = r.input]
        IN  CASE r.resp = "Submit" ->
                    [tree |-> edited, resp |-> "SetValue",
                     index |-> param_index(tree), value |-> r.input.value]
              [] r.resp = "Cancel" -> TreeResp(cancel_editing(edited), "None")
              [] OTHER -> TreeResp(edited, "Handled")
    ELSE
        CASE event.code = "Up" ->
                IF event.shift
                THEN IF HasRow(tree) /\ is_incremental(current_row(tree).kind)
                     THEN [tree |-> tree, resp |-> "IncValue",
                           index |-> current_row(tree).index, value |-> <<>>]
                     ELSE TreeResp(tree, "Handled")
                ELSE TreeResp(TreeDec(tree), "Handled")
          [] event.code = "Down" ->
                IF event.shift
                THEN IF HasRow(tree) /\ is_incremental(current_row(tree).kind)
                     THEN [tree |-> tree, resp |-> "DecValue",
                           index |-> current_row(tree).index, value |-> <<>>]
                     ELSE TreeResp(tree, "Handled")
                ELSE TreeResp(TreeInc(tree), "Handled")
          [] event.code = "Enter" -> TreeResp(tree, "Focus")
          [] event.code = "Backspace" -> TreeResp(tree, "Unfocus")
          [] OTHER -> TreeResp(tree, "None")

\* Tree::handle_event: the tree after the event, and the response
\* (SetValue, IncValue and DecValue carry the source index of the row)
TreeHandle(tree, event) ==
    IF HasEditingData(tree) THEN
        LET r == InputHandle(tree.editing.input, event)
            edited == [tree EXCEPT !.editing.input = r.input]
        IN  CASE r.resp = "Submit" ->
                    [tree |-> edited, resp |-> "SetValue",
                     index |-> param_index(tree), value |-> r.input.value]
              [] r.resp = "Cancel" -> TreeResp(cancel_editing(edited), "Handled")
              [] OTHER -> TreeResp(edited, "Handled")
    ELSE
        CASE event.code = "Up" ->
                IF event.shift
                THEN IF HasRow(tree) /\ is_incremental(current_row(tree).kind)
                     THEN [tree |-> tree, resp |-> "IncValue",
                           index |-> current_row(tree).index, value |-> <<>>]
                     ELSE TreeResp(tree, "Handled")
                ELSE TreeResp(TreeDec(tree), "Handled")
          [] event.code = "Down" ->
                IF event.shift
                THEN IF HasRow(tree) /\ is_incremental(current_row(tree).kind)
                     THEN [tree |-> tree, resp |-> "DecValue",
                           index |-> current_row(tree).index, value |-> <<>>]
                     ELSE TreeResp(tree, "Handled")
                ELSE TreeResp(TreeInc(tree), "Handled")
          [] event.code = "Enter" -> TreeResp(tree, "Focus")
          [] event.code = "Backspace" -> TreeResp(tree, "Unfocus")
          [] OTHER -> TreeResp(tree, "None")

(***************************************************************************)
(* Filter: the filter box and its regex (src/comp/filter.rs).              *)
(***************************************************************************)
FilterNew == [input |-> InputDefault, last_input |-> <<>>, regex |-> RegexNew(<<>>)]

\* Filter::handle_event: the filter after the event, and the response
FilterHandle(filter, event) ==
    LET r == InputHandle(filter.input, event)
        typed == [filter EXCEPT !.input = r.input]
    IN  CASE r.resp = "Submit" ->
                LET regex == RegexNew(typed.input.value)
                    f == [typed EXCEPT !.regex = regex, !.last_input = typed.input.value]
                IN  IF regex.ok
                    THEN [filter |-> [f EXCEPT !.input.error = "None"], resp |-> "Exit"]
                    ELSE [filter |-> [f EXCEPT !.input.error = "regex error"], resp |-> "None"]
          [] r.resp = "Cancel" ->
                [filter |-> [typed EXCEPT !.input.value = typed.last_input], resp |-> "Exit"]
          [] OTHER -> [filter |-> typed, resp |-> "None"]

(***************************************************************************)
(* The documents a file can hold.                                          *)
(***************************************************************************)
Doc1 ==
    PStruct(<<
        Entry(<<"a">>, PBool(FALSE)),
        Entry(<<"a", "b">>,
              PList(<<PInt("I8", -1),
                      PStruct(<<Entry(<<"b">>, PBool(TRUE)),
                                Entry(<<"a", "b">>, PList(<<>>)),
                                Entry(<<"a">>, PBool(TRUE))>>)>>)),
        Entry(<<"c">>, PBool(TRUE)),
        Entry(<<"b">>, PStruct(<<Entry(<<"a">>, PBool(TRUE)),
                                 Entry(<<"b">>, PInt("U8", 7))>>))
    >>)

Doc2 ==
    PStruct(<<
        Entry(<<"a">>, PStruct(<<Entry(<<"b">>, PInt("U8", 10))>>)),
        Entry(<<"b">>, PList(<<>>))
    >>)

Docs == {Doc1, Doc2}

(***************************************************************************)
(* Hash40 (the hash40 crate of prc, as src/components/hash_input.rs calls  *)
(* it).  A Hash40 wraps a u64, written here as its sixteen hexadecimal     *)
(* digits, most significant first: the low 32 bits are the CRC-32 of a     *)
(* label and the 8 bits above them its length in bytes.                    *)
(***************************************************************************)
\* the bytes of the characters that can be typed
Bytes ==
    " " :> 32 @@ "!" :> 33 @@ "\"" :> 34 @@ "#" :> 35 @@ "$" :> 36 @@ "%" :> 37
    @@ "&" :> 38 @@ "'" :> 39 @@ "(" :> 40 @@ ")" :> 41 @@ "*" :> 42 @@ "+" :> 43
    @@ "," :> 44 @@ "-" :> 45 @@ "." :> 46 @@ "/" :> 47 @@ "0" :> 48 @@ "1" :> 49
    @@ "2" :> 50 @@ "3" :> 51 @@ "4" :> 52 @@ "5" :> 53 @@ "6" :> 54 @@ "7" :> 55
    @@ "8" :> 56 @@ "9" :> 57 @@ ":" :> 58 @@ ";" :> 59 @@ "<" :> 60 @@ "=" :> 61
    @@ ">" :> 62 @@ "?" :> 63 @@ "@" :> 64 @@ "A" :> 65 @@ "B" :> 66 @@ "C" :> 67
    @@ "D" :> 68 @@ "E" :> 69 @@ "F" :> 70 @@ "G" :> 71 @@ "H" :> 72 @@ "I" :> 73
    @@ "J" :> 74 @@ "K" :> 75 @@ "L" :> 76 @@ "M" :> 77 @@ "N" :> 78 @@ "O" :> 79
    @@ "P" :> 80 @@ "Q" :> 81 @@ "R" :> 82 @@ "S" :> 83 @@ "T" :> 84 @@ "U" :> 85
    @@ "V" :> 86 @@ "W" :> 87 @@ "X" :> 88 @@ "Y" :> 89 @@ "Z" :> 90 @@ "[" :> 91
    @@ "\\" :> 92 @@ "]" :> 93 @@ "^" :> 94 @@ "_" :> 95 @@ "a" :> 97 @@ "b" :> 98
    @@ "c" :> 99 @@ "d" :> 100 @@ "e" :> 101 @@ "f" :> 102 @@ "g" :> 103 @@ "h" :> 104
    @@ "i" :> 105 @@ "j" :> 106 @@ "k" :> 107 @@ "l" :> 108 @@ "m" :> 109 @@ "n" :> 110
    @@ "o" :> 111 @@ "p" :> 112 @@ "q" :> 113 @@ "r" :> 114 @@ "s" :> 115 @@ "t" :> 116
    @@ "u" :> 117 @@ "v" :> 118 @@ "w" :> 119 @@ "x" :> 120 @@ "y" :> 121 @@ "z" :> 122
    @@ "{" :> 123 @@ "|" :> 124 @@ "}" :> 125 @@ "~" :> 126

\* the byte of a character
Ascii(c) == Bytes[c]

\* str::starts_with
starts_with(text, prefix) ==
    Len(prefix) <= Len(text) /\ SubSeq(text, 1, Len(prefix)) = prefix

\* the order of String: byte by byte, a proper prefix first
RECURSIVE StrLess(_, _)
StrLess(a, b) ==
    IF Len(b) = 0 THEN FALSE
    ELSE IF Len(a) = 0 THEN TRUE
    ELSE IF Head(a) = Head(b) THEN StrLess(Tail(a), Tail(b))
    ELSE Ascii(Head(a)) < Ascii(Head(b))

\* the exclusive or of two hexadecimal digits
Xor4(a, b) ==
      ((a + b) % 2)
    + 2 * (((a \div 2) + (b \div 2)) % 2)
    + 4 * (((a \div 4) + (b \div 4)) % 2)
    + 8 * (((a \div 8) + (b \div 8)) % 2)

\* the exclusive or of two 32-bit words, eight digits each
XorDigits(a, b) ==
    <<Xor4(a[1], b[1]), Xor4(a[2], b[2]), Xor4(a[3], b[3]), Xor4(a[4], b[4]),
      Xor4(a[5], b[5]), Xor4(a[6], b[6]), Xor4(a[7], b[7]), Xor4(a[8], b[8])>>

\* a 32-bit word shifted right by one bit
ShiftRight(w) ==
    <<w[1] \div 2,
      (w[2] \div 2) + 8 * (w[1] % 2),
      (w[3] \div 2) + 8 * (w[2] % 2),
      (w[4] \div 2) + 8 * (w[3] % 2),
      (w[5] \div 2) + 8 * (w[4] % 2),
      (w[6] \div 2) + 8 * (w[5] % 2),
      (w[7] \div 2) + 8 * (w[6] % 2),
      (w[8] \div 2) + 8 * (w[7] % 2)>>

\* the polynomial of CRC-32, reflected: 0xEDB88320
CrcPoly == <<14, 13, 11, 8, 8, 3, 2, 0>>
CrcOnes == <<15, 15, 15, 15, 15, 15, 15, 15>>

\* one round of CRC-32 on the word
CrcRound(w) ==
    IF w[8] % 2 = 1 THEN XorDigits(ShiftRight(w), CrcPoly) ELSE ShiftRight(w)

\* the word after n more rounds (the set of one element holds the word of
\* the round, computed once)
RECURSIVE CrcRounds(_, _)
CrcRounds(w, n) ==
    IF n = 0 THEN w
    ELSE CHOOSE r \in {CrcRounds(v, n - 1) : v \in {CrcRound(w)}} : TRUE

\* the word after the bytes of the text from the i-th on: a byte enters the
\* low eight bits, and eight rounds follow
RECURSIVE CrcBytes(_, _, _)
CrcBytes(w, text, i) ==
    IF i > Len(text) THEN w
    ELSE CHOOSE r \in
            {CrcBytes(v, text, i + 1) :
                v \in {CrcRounds(<<w[1], w[2], w[3], w[4], w[5], w[6],
                                   Xor4(w[7], Ascii(text[i]) \div 16),
                                   Xor4(w[8], Ascii(text[i]) % 16)>>, 8)}} : TRUE

crc32(text) == XorDigits(CrcBytes(CrcOnes, text, 1), CrcOnes)

\* hash40: the length of the text as a u8 above its CRC-32
hash40(text) ==
    <<0, 0, 0, 0, 0, 0, (Len(text) % 256) \div 16, Len(text) % 16>> \o crc32(text)

\* char::to_digit(16), or -1
HexVal(c) ==
    LET b == Ascii(c) IN
    IF b >= 48 /\ b <= 57 THEN b - 48
    ELSE IF b >= 97 /\ b <= 102 THEN b - 87
    ELSE IF b >= 65 /\ b <= 70 THEN b - 55
    ELSE -1

ZeroHash == <<0, 0, 0, 0, 0, 0, 0, 0, 0, 0, 0, 0, 0, 0, 0, 0>>

\* u64::from_str_radix(digits, 16) after the sign: every character a digit,
\* and no digit shifted out of the 64 bits
RECURSIVE HexAccumulate(_, _)
HexAccumulate(digits, acc) ==
    IF Len(digits) = 0 THEN [ok |-> TRUE, hash |-> acc]
    ELSE IF HexVal(Head(digits)) < 0 \/ acc[1] # 0 THEN [ok |-> FALSE, hash |-> acc]
    ELSE HexAccumulate(Tail(digits), Tail(acc) \o <<HexVal(Head(digits))>>)

\* Hash40::from_hex_str, as [ok, hash]
from_hex_str(text) ==
    LET rest == SubSeq(text, 3, Len(text))
        digits == IF Len(rest) > 0 /\ rest[1] = "+" THEN Tail(rest) ELSE rest
    IN  IF ~starts_with(text, <<"0", "x">>) \/ Len(digits) = 0
        THEN [ok |-> FALSE, hash |-> ZeroHash]
        ELSE HexAccumulate(digits, ZeroHash)

HexChars ==
    <<"0", "1", "2", "3", "4", "5", "6", "7", "8", "9", "a", "b", "c", "d", "e", "f">>

\* "0x{:010x}": the digits from the first that is no zero on, ten at least
HexText(hash) ==
    LET zeros == CHOOSE k \in 0..6 :
                    /\ \A i \in 1..k : hash[i] = 0
                    /\ (k = 6 \/ hash[k + 1] # 0)
        RECURSIVE Text(_)
        Text(i) == IF i > 16 THEN <<>> ELSE <<HexChars[hash[i] + 1]>> \o Text(i + 1)
    IN  <<"0", "x">> \o Text(zeros + 1)

\* LabelMap::hash_of over the labels of the map, as [some, hash]
hash_of(labels, text) ==
    IF \E i \in 1..Len(labels) : labels[i] = text
    THEN [some |-> TRUE, hash |-> hash40(text)]
    ELSE [some |-> FALSE, hash |-> ZeroHash]

\* the text of a Hash40 (Display): its label where the map has one
HashText(labels, hash) ==
    IF \E i \in 1..Len(labels) : hash40(labels[i]) = hash
    THEN labels[CHOOSE i \in 1..Len(labels) : hash40(labels[i]) = hash]
    ELSE HexText(hash)

(***************************************************************************)
(* HashInput: the editor of a hash (src/components/hash_input.rs).  The    *)
(* two shared collections are mutexes, [labels, poisoned]: label_map is    *)
(* Hash40::label_map() and sorted_labels the BTreeSet of the labels, its   *)
(* labels in ascending order.  match_num is Option<usize>: [some, n].      *)
(***************************************************************************)
NoMatch == [some |-> FALSE, n |-> 0]
SomeMatch(n) == [some |-> TRUE, n |-> n]

\* status that takes a poisoned lock for a text that cannot be read
HashInputStatus_fatal(h, lm) ==
    IF starts_with(h.value, <<"0", "x">>)
    THEN IF from_hex_str(h.value).ok
         THEN [kind |-> "Hash", hash |-> from_hex_str(h.value).hash]
         ELSE [kind |-> "HashInvalid", hash |-> ZeroHash]
    ELSE IF ~lm.poisoned
    THEN IF hash_of(lm.labels, h.value).some
         THEN [kind |-> "LabelExists", hash |-> hash_of(lm.labels, h.value).hash]
         ELSE [kind |-> "LabelNotExists", hash |-> hash40(h.value)]
    ELSE [kind |-> "HashInvalid", hash |-> ZeroHash]

\* HashInput::status: the Validity of the text, as [kind, hash]
HashInputStatus(h, lm) ==
    IF starts_with(h.value, <<"0", "x">>)
    THEN IF from_hex_str(h.value).ok
         THEN [kind |-> "Hash", hash |-> from_hex_str(h.value).hash]
         ELSE [kind |-> "HashInvalid", hash |-> ZeroHash]
    ELSE IF ~lm.poisoned
    THEN IF hash_of(lm.labels, h.value).some
         THEN [kind |-> "LabelExists", hash |-> hash_of(lm.labels, h.value).hash]
         ELSE [kind |-> "LabelNotExists", hash |-> hash40(h.value)]
    ELSE [kind |-> "LabelsPoisoned", hash |-> hash40(h.value)]

\* HashInput::value
HashInputValue(h) == h.return_value

\* the limit of update_matches
MatchLimit == 1000

\* BTreeSet::range(prefix..): the labels from the first that is not below
\* the prefix on
RangeFrom(sorted, prefix) ==
    SubSeq(sorted,
           1 + Cardinality({i \in 1..Len(sorted) : StrLess(sorted[i], prefix)}),
           Len(sorted))

\* take that takes them all
Take_all(s, n) == s

\* Iterator::take
Take(s, n) == SubSeq(s, 1, IF Len(s) < n THEN Len(s) ELSE n)

\* Iterator::take_while(|str| str.starts_with(prefix))
TakeWhile(s, prefix) ==
    LET stop == CHOOSE i \in 1..(Len(s) + 1) :
                    /\ (i = Len(s) + 1 \/ ~starts_with(s[i], prefix))
                    /\ \A j \in 1..(i - 1) : starts_with(s[j], prefix)
    IN  SubSeq(s, 1, stop - 1)

\* update_matches that highlights no candidate
update_matches_none(h, lm, sl) ==
    LET st == HashInputStatus(h, lm).kind
        found == TakeWhile(Take(RangeFrom(sl.labels, h.value), MatchLimit), h.value)
    IN  IF st \in {"LabelExists", "LabelNotExists"} /\ ~sl.poisoned
        THEN [h EXCEPT !.matches = found, !.match_num = NoMatch]
        ELSE [h EXCEPT !.matches = <<>>, !.match_num = NoMatch]

\* HashInput::update_matches
update_matches(h, lm, sl) ==
    LET st == HashInputStatus(h, lm).kind
        found == TakeWhile(Take(RangeFrom(sl.labels, h.value), MatchLimit), h.value)
    IN  IF st \in {"LabelExists", "LabelNotExists"} /\ ~sl.poisoned
        THEN [h EXCEPT !.matches = found,
                       !.match_num = IF st = "LabelNotExists" /\ Len(found) > 0
                                     THEN SomeMatch(0) ELSE NoMatch]
        ELSE [h EXCEPT !.matches = <<>>, !.match_num = NoMatch]

\* HashInput::new
HashInputNew(hash, lm, sl) ==
    update_matches([value        |-> HashText(lm.labels, hash),
                    return_value |-> hash,
                    matches      |-> <<>>,
                    match_num    |-> NoMatch], lm, sl)

\* HashInput::current_match, as [some, label]
current_match(h) ==
    IF h.match_num.some /\ h.match_num.n < Len(h.matches)
    THEN [some |-> TRUE, label |-> Nth(h.matches, h.match_num.n)]
    ELSE [some |-> FALSE, label |-> <<>>]

\* Down that goes round from the last candidate to the first
HashInputDown_wrap(h) ==
    IF Len(h.matches) = 0 THEN [h EXCEPT !.match_num = NoMatch]
    ELSE IF h.match_num.some
    THEN [h EXCEPT !.match_num = SomeMatch((h.match_num.n + 1) % Len(h.matches))]
    ELSE [h EXCEPT !.match_num = SomeMatch(0)]

\* HashInput::handle_event, KeyCode::Down
HashInputDown(h) ==
    IF Len(h.matches) = 0 THEN [h EXCEPT !.match_num = NoMatch]
    ELSE IF h.match_num.some
    THEN IF h.match_num.n < Len(h.matches) - 1
         THEN [h EXCEPT !.match_num = SomeMatch(h.match_num.n + 1)]
         ELSE h
    ELSE [h EXCEPT !.match_num = SomeMatch(0)]

\* HashInput::handle_event, KeyCode::Up
HashInputUp(h) ==
    IF Len(h.matches) = 0 THEN [h EXCEPT !.match_num = NoMatch]
    ELSE IF h.match_num.some /\ h.match_num.n > 0
    THEN [h EXCEPT !.match_num = SomeMatch(h.match_num.n - 1)]
    ELSE h

\* Tab that takes the candidate accepted as the value to be returned
HashInputTab_commit(h, lm, sl) ==
    IF current_match(h).some
    THEN update_matches([h EXCEPT !.value = current_match(h).label,
                                  !.return_value = hash40(current_match(h).label)], lm, sl)
    ELSE h

\* Tab that keeps the candidates of the text before
HashInputTab_stale(h, lm, sl) ==
    IF current_match(h).some
    THEN [h EXCEPT !.value = current_match(h).label]
    ELSE h

\* HashInput::handle_event, KeyCode::Tab
HashInputTab(h, lm, sl) ==
    IF current_match(h).some
    THEN update_matches([h EXCEPT !.value = current_match(h).label], lm, sl)
    ELSE h

\* Enter that submits the candidate highlighted
HashInputEnter_candidate(h, lm) ==
    IF HashInputStatus(h, lm).kind = "HashInvalid"
    THEN [input |-> h, resp |-> "None"]
    ELSE [input |-> [h EXCEPT !.return_value =
                        IF current_match(h).some THEN hash40(current_match(h).label)
                        ELSE HashInputStatus(h, lm).hash],
          resp  |-> "Submit"]

\* Enter that submits a malformed literal as the hash 0
HashInputEnter_zero(h, lm) ==
    [input |-> [h EXCEPT !.return_value = HashInputStatus(h, lm).hash],
     resp  |-> "Submit"]

\* HashInput::handle_event, KeyCode::Enter: the editor and the response
HashInputEnter(h, lm) ==
    IF HashInputStatus(h, lm).kind = "HashInvalid"
    THEN [input |-> h, resp |-> "None"]
    ELSE [input |-> [h EXCEPT !.return_value = HashInputStatus(h, lm).hash],
          resp  |-> "Submit"]

\* HashInput::handle_event: the editor after the event, and the response
HashInputHandle(h, event, lm, sl) ==
    CASE event.code = "Char" ->
            [input |-> update_matches([h EXCEPT !.value = Append(@, event.c)], lm, sl),
             resp  |-> "Handled"]
      [] event.code = "Backspace" ->
            [input |-> update_matches([h EXCEPT !.value = Pop(@)], lm, sl),
             resp  |-> "Handled"]
      [] event.code = "Down" -> [input |-> HashInputDown(h), resp |-> "Handled"]
      [] event.code = "Up" -> [input |-> HashInputUp(h), resp |-> "Handled"]
      [] event.code = "Tab" -> [input |-> HashInputTab(h, lm, sl), resp |-> "Handled"]
      [] event.code = "Enter" -> HashInputEnter(h, lm)
      [] event.code = "Esc" -> [input |-> h, resp |-> "Cancel"]
      [] OTHER -> [input |-> h, resp |-> "None"]

\* a mutex nobody has panicked under
Healthy(labels) == [labels |-> labels, poisoned |-> FALSE]

(***************************************************************************)
(* Explorer: the file chooser (src/comp/explorer.rs).  A name is a text, a *)
(* path the sequence of its names from the root.  The disk is given by the *)
(* directories and the files that exist on it; a directory that cannot be  *)
(* read is one read_dir fails on.  An entry of the listing is              *)
(* [path, is_dir]; confirm_overwrite is Option<(bool, Option<PathBuf>)>:   *)
(* [some, overwrite, path]; a response is [kind, path].                    *)
(***************************************************************************)
DiskDirs == {<<>>, <<<<"d">>>>, <<<<"d">>, <<"d", "d">>>>}
DiskFiles == {<<<<"F", "f">>>>, <<<<"f">>>>, <<<<"d">>, <<"f">>>>}
Unreadable == {<<<<"d">>, <<"d", "d">>>>}

\* Path::is_file, Metadata::is_dir
is_file(path) == path \in DiskFiles
is_dir(path) == path \in DiskDirs

\* Path::file_name, Path::parent as [some, path], Path::join
file_name(path) == path[Len(path)]
path_parent(path) ==
    IF Len(path) = 0 THEN [some |-> FALSE, path |-> path]
    ELSE [some |-> TRUE, path |-> Pop(path)]
join(path, name) == IF Len(name) = 0 THEN path ELSE Append(path, name)

\* str::to_lowercase, on the letters of the names
LowerChar(c) == IF c = "F" THEN "f" ELSE IF c = "D" THEN "d" ELSE c
to_lowercase(text) == [i \in 1..Len(text) |-> LowerChar(text[i])]

\* the entries in the order of their file names
RECURSIVE SortByName(_)
SortByName(paths) ==
    IF paths = {} THEN <<>>
    ELSE LET first == CHOOSE p \in paths :
                          \A q \in paths \ {p} : StrLess(file_name(p), file_name(q))
         IN  <<[path |-> first, is_dir |-> is_dir(first)]>> \o SortByName(paths \ {first})

\* Explorer::get_files: Result<Vec<EntryInfo>, String> as [ok, entries]
get_files(path) ==
    IF path \in DiskDirs \ Unreadable
    THEN [ok |-> TRUE,
          entries |-> SortByName({p \in DiskDirs \cup DiskFiles :
                                    Len(p) = Len(path) + 1 /\ Pop(p) = path})]
    ELSE [ok |-> FALSE, entries |-> <<>>]

NoOverwrite == [some |-> FALSE, overwrite |-> FALSE, path |-> <<>>]

\* a confirmation that opens with Yes selected
Confirming_yes(path) == [some |-> TRUE, overwrite |-> TRUE, path |-> path]

\* Some((false, Some(path)))
Confirming(path) == [some |-> TRUE, overwrite |-> FALSE, path |-> path]

ExpResp(e, kind) == [explorer |-> e, resp |-> [kind |-> kind, path |-> <<>>]]
ExpPath(e, kind, path) == [explorer |-> e, resp |-> [kind |-> kind, path |-> path]]

\* Explorer::new
ExplorerNew(path, emode) ==
    [path              |-> path,
     input             |-> InputDefault,
     input_active      |-> FALSE,
     files             |-> get_files(path),
     mode              |-> emode,
     confirm_overwrite |-> NoOverwrite,
     selected          |-> 0]

\* Explorer::set_path
set_path(e, path) ==
    [e EXCEPT !.files = get_files(path), !.path = path, !.selected = 0]

\* usize::saturating_sub(1)
LessOne(n) == IF n = 0 THEN 0 ELSE n - 1

\* Explorer::increment, Explorer::decrement
ExplorerIncrement(e) ==
    IF e.files.ok
    THEN [e EXCEPT !.selected =
            IF e.selected >= LessOne(Len(e.files.entries)) THEN 0 ELSE e.selected + 1]
    ELSE e
ExplorerDecrement(e) ==
    IF e.files.ok
    THEN [e EXCEPT !.selected =
            IF e.selected = 0 THEN LessOne(Len(e.files.entries)) ELSE e.selected - 1]
    ELSE e

\* Explorer::selected_path, as [some, entry]
selected_path(e) ==
    IF e.files.ok /\ e.selected < Len(e.files.entries)
    THEN [some |-> TRUE, entry |-> Nth(e.files.entries, e.selected)]
    ELSE [some |-> FALSE, entry |-> [path |-> <<>>, is_dir |-> FALSE]]

\* the positions of the entries that satisfy Test, from 0
Positions(entries, Test(_)) == {i \in 0..(Len(entries) - 1) : Test(Nth(entries, i))}
Least(set) == CHOOSE i \in set : \A j \in set : i <= j

\* Explorer::handle_event while the overwrite confirmation is open
ExplorerConfirmHandle(e, event) ==
    LET c == e.confirm_overwrite
        closed == [e EXCEPT !.confirm_overwrite = NoOverwrite]
    IN  CASE event.code = "Right" /\ c.overwrite ->
                ExpResp([e EXCEPT !.confirm_overwrite.overwrite = FALSE], "Handled")
          [] event.code = "Left" /\ ~c.overwrite ->
                ExpResp([e EXCEPT !.confirm_overwrite.overwrite = TRUE], "Handled")
          [] event.code \in {"Backspace", "Esc"} -> ExpResp(closed, "Handled")
          [] event.code = "Enter" ->
                IF c.overwrite THEN ExpPath(closed, "Save", c.path)
                ELSE ExpResp(closed, "Handled")
          [] OTHER -> ExpResp(e, "None")

\* InputResponse::Submit in the explorer
ExplorerSubmit(e) ==
    IF e.files.ok
    THEN IF e.mode = "Open"
         THEN ExpResp([e EXCEPT !.input_active = FALSE], "Handled")
         ELSE LET named(entry) == file_name(entry.path) = e.input.value
                  found == Positions(e.files.entries, named)
                  new_path == join(e.path, e.input.value)
              IN  IF found # {} /\ Nth(e.files.entries, Least(found)).is_dir
                  THEN ExpResp(set_path(e, Nth(e.files.entries, Least(found)).path), "Handled")
                  ELSE IF is_file(new_path)
                  THEN ExpResp([e EXCEPT !.confirm_overwrite = Confirming(new_path)], "Handled")
                  ELSE ExpPath(e, "Save", new_path)
    ELSE ExpResp([e EXCEPT !.input_active = FALSE], "Handled")

\* InputResponse::Edited in the explorer: the selection goes to the first
\* entry whose name begins with the text, whatever the case
ExplorerEdited(e, deletion) ==
    IF e.files.ok /\ ~deletion
    THEN LET begins(entry) ==
                 starts_with(to_lowercase(file_name(entry.path)), to_lowercase(e.input.value))
             found == Positions(e.files.entries, begins)
         IN  ExpResp(IF found # {} THEN [e EXCEPT !.selected = Least(found)] ELSE e, "Handled")
    ELSE ExpResp(e, "Handled")

\* Explorer::handle_event while the name is typed
ExplorerInputHandle(e, event) ==
    LET r == InputHandle(e.input, event)
        typed == [e EXCEPT !.input = r.input]
    IN  CASE r.resp = "Submit" -> ExplorerSubmit(typed)
          [] r.resp = "Cancel" -> ExpResp([typed EXCEPT !.input_active = FALSE], "Handled")
          [] r.resp = "Edited" -> ExplorerEdited(typed, event.code = "Backspace")
          [] OTHER -> ExpResp(typed, "None")

\* Explorer::handle_event, KeyCode::Enter on the listing
ExplorerEnter(e) ==
    LET info == selected_path(e) IN
    IF info.some
    THEN IF info.entry.is_dir THEN ExpResp(set_path(e, info.entry.path), "Handled")
         ELSE IF e.mode = "Open" THEN ExpPath(e, "Open", info.entry.path)
         ELSE ExpResp([e EXCEPT !.confirm_overwrite = Confirming(info.entry.path)], "Handled")
    ELSE ExpResp(e, "Handled")

\* Explorer::handle_event on the listing
ExplorerListHandle(e, event) ==
    CASE event.code = "Esc" -> ExpResp(e, "Cancel")
      [] event.code = "Up" -> ExpResp(ExplorerDecrement(e), "Handled")
      [] event.code = "Down" -> ExpResp(ExplorerIncrement(e), "Handled")
      [] event.code = "Enter" -> ExplorerEnter(e)
      [] event.code = "Backspace" ->
            ExpResp(IF path_parent(e.path).some THEN set_path(e, path_parent(e.path).path) ELSE e,
                    "Handled")
      [] event.code = "Char" /\ event.c = "/" ->
            ExpResp([e EXCEPT !.input_active = TRUE], "Handled")
      [] OTHER -> ExpResp(e, "None")

\* Explorer::handle_event: the explorer after the event, and the response
ExplorerHandle(e, event) ==
    IF e.confirm_overwrite.some THEN ExplorerConfirmHandle(e, event)
    ELSE IF e.input_active THEN ExplorerInputHandle(e, event)
    ELSE ExplorerListHandle(e, event)

(***************************************************************************)
(* Modular arithmetic on an unsigned type (src/utils/modulo.rs).  The type *)
(* I is given by its greatest value, max: an addition or subtraction of    *)
(* the type wraps round max + 1.                                           *)
(***************************************************************************)
\* a + b and a - b in the type
WrapAdd(a, b, max) == (a + b) % (max + 1)
WrapSub(a, b, max) == (a - b) % (max + 1)

\* compliment
compliment(value, modulo, max) == WrapSub(modulo, value % modulo, max) % modulo

\* add_mod without the branch of the complements
add_mod_plain(augend, addend, modulo, max) ==
    WrapAdd(augend % modulo, addend % modulo, max) % modulo

\* add_mod
add_mod(augend, addend, modulo, max) ==
    LET a == augend % modulo
        b == addend % modulo
        would_overflow == WrapSub(max, b, max) < a
    IN  IF would_overflow
        THEN WrapSub(modulo,
                     WrapAdd(compliment(a, modulo, max), compliment(b, modulo, max), max),
                     max)
        ELSE WrapAdd(a, b, max) % modulo

\* sub_mod
sub_mod(minuend, subtrahend, modulo, max) ==
    add_mod(minuend, compliment(subtrahend, modulo, max), modulo, max)

\* the additions and subtractions compliment, add_mod and sub_mod make, each
\* as the number it is over the integers, of the operands it is made on
compliment_steps(value, modulo) == {modulo - (value % modulo)}
add_mod_steps(augend, addend, modulo, max) ==
    LET a == augend % modulo
        b == addend % modulo
        would_overflow == WrapSub(max, b, max) < a
        ca == compliment(a, modulo, max)
        cb == compliment(b, modulo, max)
    IN  {max - b} \cup
        (IF would_overflow
         THEN compliment_steps(a, modulo) \cup compliment_steps(b, modulo)
                  \cup {ca + cb, modulo - WrapAdd(ca, cb, max)}
         ELSE {a + b})
sub_mod_steps(minuend, subtrahend, modulo, max) ==
    compliment_steps(subtrahend, modulo)
        \cup add_mod_steps(minuend, compliment(subtrahend, modulo, max), modulo, max)

(***************************************************************************)
(* Param: a level of the document and its editor                           *)
(* (src/components/param.rs).  A Param owns its composite, the selection   *)
(* of its table and `selected`, which is empty, the editor of a value, or  *)
(* NewLevel(Param), the level of the child that was entered.  A Param and  *)
(* the levels entered from it are the sequence `levels` of [param, state], *)
(* outermost first: levels[k + 1] is the NewLevel of levels[k]; `sel` is   *)
(* the `selected` of the innermost level, empty or an editor [kind, node]. *)
(* state is Option<usize>: [some, n].                                      *)
(***************************************************************************)
\* usize::MAX, as far as the arithmetic of the model reaches
UsizeMax == 1073741823

PFloat(n) == [k |-> "Float", n |-> n]

NoneSelected == [some |-> FALSE, n |-> 0]
Selected(n) == [some |-> TRUE, n |-> n]

\* no editor
NoEditor == [kind |-> "None", node |-> PBool(FALSE)]

\* the editor of a value
Editor(node) == [kind |-> node.k, node |-> node]

\* Param::new
ParamNew(param) == [param |-> param, state |-> NoneSelected]

\* ParamList::default() and ParamStruct::default(), what std::mem::take
\* leaves behind
Taken(node) == IF node.k = "List" THEN PList(<<>>) ELSE PStruct(<<>>)

\* Param::down
ParamDown(level) ==
    IF NumKids(level.param) > 0
    THEN IF level.state.some
         THEN [level EXCEPT !.state =
                    Selected(add_mod(level.state.n, 1, NumKids(level.param), UsizeMax))]
         ELSE [level EXCEPT !.state = Selected(0)]
    ELSE [level EXCEPT !.state = NoneSelected]

\* Param::up
ParamUp(level) ==
    IF NumKids(level.param) > 0
    THEN IF level.state.some
         THEN [level EXCEPT !.state =
                    Selected(sub_mod(level.state.n, 1, NumKids(level.param), UsizeMax))]
         ELSE [level EXCEPT !.state = Selected(NumKids(level.param) - 1)]
    ELSE [level EXCEPT !.state = NoneSelected]

\* the levels with the innermost replaced
WithLast(levels, level) == [levels EXCEPT ![Len(levels)] = level]

\* Param::enter on the innermost level: the levels and `selected` after it
ParamEnter(levels) ==
    LET level == levels[Len(levels)] IN
    IF level.state.some
    THEN LET child == Kid(level.param, level.state.n) IN
         IF is_parent(child)
         THEN [levels |-> Append(WithLast(levels,
                                    [level EXCEPT !.param =
                                        SetKid(level.param, level.state.n, Taken(child))]),
                                 ParamNew(child)),
               sel    |-> NoEditor]
         ELSE IF child.k \in {"Bool", "Str"} \cup IntKinds
         THEN [levels |-> levels, sel |-> Editor(child)]
         ELSE [levels |-> levels, sel |-> NoEditor]
    ELSE [levels |-> levels, sel |-> NoEditor]

\* an exit that leaves the level of the child behind
ParamExitLevel_lost(levels) == SubSeq(levels, 1, Len(levels) - 1)

\* Param::exit of the level above the innermost, whose `selected` is the
\* innermost: the level of the child is put back in its slot
ParamExitLevel(levels) ==
    LET k == Len(levels) - 1
        level == levels[k]
    IN  [i \in 1..k |->
            IF i = k
            THEN [level EXCEPT !.param =
                     SetKid(level.param, level.state.n, levels[k + 1].param)]
            ELSE levels[i]]

\* Param::exit of the innermost level, whose `selected` is an editor
ParamExitValue(levels, sel, update_value) ==
    LET level == levels[Len(levels)] IN
    IF update_value
    THEN WithLast(levels, [level EXCEPT !.param = SetKid(level.param, level.state.n, sel.node)])
    ELSE levels

(***************************************************************************)
(* Param::handle_event of the level k, to which the levels above it have   *)
(* forwarded the event.  The editors of the values are components of the   *)
(* tui_components library: `ed` is what the editor answers to the event,   *)
(* [resp, node], Submit, Cancel or Other and the value it then holds.      *)
(* The result is [levels, sel, resp].                                      *)
(***************************************************************************)
RECURSIVE ParamHandleAt(_, _, _, _, _)
ParamHandleAt(levels, sel, k, event, ed) ==
    IF k < Len(levels)
    THEN LET r == ParamHandleAt(levels, sel, k + 1, event, ed) IN
         CASE r.resp = "Exit" ->
                [levels |-> ParamExitLevel(r.levels), sel |-> NoEditor, resp |-> "Handled"]
           [] r.resp = "Handled" -> r
           [] OTHER -> [levels |-> r.levels, sel |-> r.sel, resp |-> "None"]
    ELSE IF sel.kind # "None"
    THEN CASE ed.resp = "Submit" ->
                [levels |-> ParamExitValue(levels, [sel EXCEPT !.node = ed.node], TRUE),
                 sel |-> NoEditor, resp |-> "Handled"]
           [] ed.resp = "Cancel" ->
                [levels |-> ParamExitValue(levels, [sel EXCEPT !.node = ed.node], FALSE),
                 sel |-> NoEditor, resp |-> "Handled"]
           [] OTHER ->
                [levels |-> levels, sel |-> [sel EXCEPT !.node = ed.node], resp |-> "Handled"]
    ELSE CASE event.code = "Up" ->
                [levels |-> WithLast(levels, ParamUp(levels[k])), sel |-> sel,
                 resp |-> "Handled"]
           [] event.code = "Down" ->
                [levels |-> WithLast(levels, ParamDown(levels[k])), sel |-> sel,
                 resp |-> "Handled"]
           [] event.code = "Enter" ->
                [levels |-> ParamEnter(levels).levels, sel |-> ParamEnter(levels).sel,
                 resp |-> "Handled"]
           [] event.code = "Backspace" -> [levels |-> levels, sel |-> sel, resp |-> "Exit"]
           [] OTHER -> [levels |-> levels, sel |-> sel, resp |-> "None"]

\* Param::handle_event of the outermost level
ParamHandle(levels, sel, event, ed) == ParamHandleAt(levels, sel, 1, event, ed)

(***************************************************************************)
(* App (src/comp/app.rs).  The state of the program is the record          *)
(* [base, mode, confirm, explorer, tail, route, filter, unsaved, status]:  *)
(* confirm is the choice of the Confirm of the two confirm modes, explorer *)
(* the ExplorerMode of the Explorer of mode FileOpen, and status tells     *)
(* whether the program runs, has returned AppResponse::Exit or has         *)
(* panicked.                                                               *)
(***************************************************************************)
VARIABLES base, mode, confirm, explorer, tail, route, filter, unsaved, status

\* the state of a HashInput: the editor, the two mutexes, the hash it was
\* opened with and its last response
VARIABLES hash_input, label_map, sorted_labels, opened, response

\* the state of a Param: its levels, the `selected` of the innermost and its
\* last response
VARIABLES param_levels, param_selected, param_resp

\* the arguments of a call of src/utils/modulo.rs and what it returned
VARIABLES mod_a, mod_b, mod_m, mod_out

\* an Explorer on its own: the explorer, and the response to the last key
VARIABLES exp, exp_resp

app_vars == <<base, mode, confirm, explorer, tail, route, filter, unsaved, status>>
hash_vars == <<hash_input, label_map, sorted_labels, opened, response>>
param_vars == <<param_levels, param_selected, param_resp>>
mod_vars == <<mod_a, mod_b, mod_m, mod_out>>
exp_vars == <<exp, exp_resp>>
vars == <<app_vars, hash_vars, param_vars, mod_vars, exp_vars>>

\* the state as one value
State ==
    [base |-> base, mode |-> mode, confirm |-> confirm, explorer |-> explorer,
     tail |-> tail, route |-> route, filter |-> filter, unsaved |-> unsaved,
     status |-> status]

\* Filter::regex, as apply_filter takes it
FilterRegex(f) == f.regex

\* App::new
AppNew(param) ==
    [base     |-> param,
     mode     |-> "ParamView",
     confirm  |-> FALSE,
     explorer |-> "None",
     tail     |-> TreeNew(param, FilterRegex(FilterNew)),
     route    |-> <<>>,
     filter   |-> FilterNew,
     unsaved  |-> FALSE,
     status   |-> "running"]

\* set_param that keeps the frames and the filter of the document before
set_param_kept(s, param) ==
    [s EXCEPT !.base = param,
              !.mode = "ParamView",
              !.explorer = "None",
              !.tail = TreeNew(param, FilterRegex(s.filter)),
              !.unsaved = FALSE]

\* App::set_param
set_param(s, param) ==
    [s EXCEPT !.base = param,
              !.mode = "ParamView",
              !.explorer = "None",
              !.tail = TreeNew(param, FilterRegex(FilterNew)),
              !.route = <<>>,
              !.filter = FilterNew,
              !.unsaved = FALSE]

\* RouteInfo::new
RouteInfoNew(tree) ==
    [table |-> tree.selection,
     index |-> current_row(tree).index,
     name  |-> current_row(tree).name]

\* RouteInfo::index: the selected row of the saved table state
RouteIndex(info) == info.table

\* App::current_param: the node the route leads to, as [ok, p]; ok is
\* FALSE where the code panics (a node on the way that is no struct or
\* list, or an index past its children)
RECURSIVE Walk(_, _)
Walk(ptr, rt) ==
    IF Len(rt) = 0 THEN [ok |-> TRUE, p |-> ptr]
    ELSE IF ~is_parent(ptr) THEN [ok |-> FALSE, p |-> ptr]
    ELSE IF RouteIndex(Head(rt)) >= NumKids(ptr) THEN [ok |-> FALSE, p |-> ptr]
    ELSE Walk(Kid(ptr, RouteIndex(Head(rt))), Tail(rt))

current_param(b, rt) == Walk(b, rt)

\* the document with the node the route leads to replaced
\* (the write through App::current_param_mut)
RECURSIVE WalkSet(_, _, _)
WalkSet(ptr, rt, node) ==
    IF Len(rt) = 0 THEN node
    ELSE SetKid(ptr, RouteIndex(Head(rt)),
                WalkSet(Kid(ptr, RouteIndex(Head(rt))), Tail(rt), node))

Panic(s) == [s EXCEPT !.status = "panicked"]

(***************************************************************************)
(* App::handle_event, mode ParamView.                                      *)
(***************************************************************************)
\* OnFocus as it would be if the level entered were shown without the filter
OnFocus_unfiltered(s) ==
    IF ~HasRow(s.tail) THEN s
    ELSE IF current_row(s.tail).is_parent THEN
        LET pushed == Append(s.route, RouteInfoNew(s.tail))
            cur == current_param(s.base, pushed)
        IN  IF cur.ok /\ CanTree(cur.p)
            THEN [s EXCEPT !.route = pushed,
                           !.tail = TreeNew(cur.p, FilterRegex(FilterNew))]
            ELSE Panic([s EXCEPT !.route = pushed])
    ELSE [s EXCEPT !.tail = start_editing(s.tail)]

\* TreeResponse::Focus
OnFocus(s) ==
    IF ~HasRow(s.tail) THEN s
    ELSE IF current_row(s.tail).is_parent THEN
        LET pushed == Append(s.route, RouteInfoNew(s.tail))
            cur == current_param(s.base, pushed)
        IN  IF cur.ok /\ CanTree(cur.p)
            THEN [s EXCEPT !.route = pushed,
                           !.tail = TreeNew(cur.p, FilterRegex(s.filter))]
            ELSE Panic([s EXCEPT !.route = pushed])
    ELSE [s EXCEPT !.tail = start_editing(s.tail)]

\* OnUnfocus as it would be if the parent level were shown afresh
OnUnfocus_fresh(s) ==
    IF Len(s.route) = 0 THEN s
    ELSE
        LET popped == SubSeq(s.route, 1, Len(s.route) - 1)
            cur == current_param(s.base, popped)
        IN  IF cur.ok /\ CanTree(cur.p)
            THEN [s EXCEPT !.route = popped,
                           !.tail = TreeNew(cur.p, FilterRegex(s.filter))]
            ELSE Panic([s EXCEPT !.route = popped])

\* OnUnfocus as it would be if leaving the root level ended the program
OnUnfocus_leaving(s) ==
    IF Len(s.route) = 0 THEN [s EXCEPT !.status = "exited"]
    ELSE
        LET last_state == s.route[Len(s.route)]
            popped == SubSeq(s.route, 1, Len(s.route) - 1)
            cur == current_param(s.base, popped)
        IN  IF cur.ok /\ CanTree(cur.p)
            THEN [s EXCEPT !.route = popped,
                           !.tail = select_param_index(
                                        new_with_state(cur.p, FilterRegex(s.filter),
                                                       last_state.table),
                                        last_state.index)]
            ELSE Panic([s EXCEPT !.route = popped])

\* TreeResponse::Unfocus
OnUnfocus(s) ==
    IF Len(s.route) = 0 THEN s
    ELSE
        LET last_state == s.route[Len(s.route)]
            popped == SubSeq(s.route, 1, Len(s.route) - 1)
            cur == current_param(s.base, popped)
        IN  IF cur.ok /\ CanTree(cur.p)
            THEN [s EXCEPT !.route = popped,
                           !.tail = select_param_index(
                                        new_with_state(cur.p, FilterRegex(s.filter),
                                                       last_state.table),
                                        last_state.index)]
            ELSE Panic([s EXCEPT !.route = popped])

\* a parse that takes every text for a string
ParseInto_text(child, value) == [ok |-> TRUE, child |-> PStr(value)]

\* the parse! macro: the child with the parsed value, as [ok, child];
\* ok is FALSE when value.parse() is Err
ParseInto(child, value) ==
    CASE child.k = "Bool" ->
            [ok |-> ParseBool(value).ok, child |-> PBool(ParseBool(value).b)]
      [] child.k \in IntKinds ->
            [ok |-> ParseInt(child.k, value).ok,
             child |-> PInt(child.k, ParseInt(child.k, value).n)]
      [] child.k = "Str" -> [ok |-> TRUE, child |-> PStr(value)]

\* OnSetValue as it would be if the row kept the text of the old value
OnSetValue_stale(s, index, value) ==
    LET parent == current_param(s.base, s.route)
    IN  IF ~parent.ok \/ ~is_parent(parent.p) \/ index >= NumKids(parent.p)
        THEN Panic(s)
        ELSE
            LET child == Kid(parent.p, index)
            IN  IF is_parent(child) THEN Panic(s)
                ELSE
                    LET r == ParseInto(child, value)
                    IN  IF r.ok
                        THEN [s EXCEPT
                                !.base = WalkSet(s.base, s.route,
                                                 SetKid(parent.p, index, r.child)),
                                !.tail = finish_editing(s.tail),
                                !.unsaved = TRUE]
                        ELSE [s EXCEPT !.tail = set_editing_error(s.tail, "[Parse error]")]

\* SetValue that writes the value and leaves the unsaved flag as it was
OnSetValue_unmarked(s, index, value) ==
    LET parent == current_param(s.base, s.route)
    IN  IF ~parent.ok \/ ~is_parent(parent.p) \/ index >= NumKids(parent.p)
        THEN Panic(s)
        ELSE
            LET child == Kid(parent.p, index)
            IN  IF is_parent(child) THEN Panic(s)
                ELSE
                    LET r == ParseInto(child, value)
                    IN  IF r.ok
                        THEN [s EXCEPT
                                !.base = WalkSet(s.base, s.route,
                                                 SetKid(parent.p, index, r.child)),
                                !.tail = finish_editing(
                                    [s.tail EXCEPT
                                        !.data.rows[TreeIndex(s.tail) + 1].value =
                                            get_value(r.child)])]
                        ELSE [s EXCEPT !.tail = set_editing_error(s.tail, "[Parse error]")]

\* TreeResponse::SetValue(index, value)
OnSetValue(s, index, value) ==
    LET parent == current_param(s.base, s.route)
    IN  IF ~parent.ok \/ ~is_parent(parent.p) \/ index >= NumKids(parent.p)
        THEN Panic(s)
        ELSE
            LET child == Kid(parent.p, index)
            IN  IF is_parent(child) THEN Panic(s)
                ELSE
                    LET r == ParseInto(child, value)
                    IN  IF r.ok
                        THEN [s EXCEPT
                                !.base = WalkSet(s.base, s.route,
                                                 SetKid(parent.p, index, r.child)),
                                !.tail = finish_editing(
                                    [s.tail EXCEPT
                                        !.data.rows[TreeIndex(s.tail) + 1].value =
                                            get_value(r.child)]),
                                !.unsaved = TRUE]
                        ELSE [s EXCEPT !.tail = set_editing_error(s.tail, "[Parse error]")]

\* TreeResponse::None: the keys of the App itself
OnAppKey(s, event) ==
    CASE event.code = "Char" /\ event.c = "/" ->
            [s EXCEPT !.mode = "RegexEdit",
                      !.filter.input.focused = TRUE,
                      !.tail.focused = FALSE]
      [] event.code = "Char" /\ event.c = "o" /\ event.ctrl ->
            IF s.unsaved
            THEN [s EXCEPT !.mode = "ConfirmOpen", !.confirm = FALSE]
            ELSE [s EXCEPT !.mode = "FileOpen", !.explorer = "Open"]
      [] event.code = "Char" /\ event.c = "s" /\ event.ctrl ->
            [s EXCEPT !.mode = "FileOpen", !.explorer = "Save"]
      [] event.code = "Esc" ->
            IF s.unsaved
            THEN [s EXCEPT !.mode = "ConfirmExit", !.confirm = FALSE]
            ELSE [s EXCEPT !.status = "exited"]
      [] OTHER -> s

ParamViewHandle(s, event) ==
    LET r == TreeHandle(s.tail, event)
        t == [s EXCEPT !.tail = r.tree]
    IN  CASE r.resp = "Focus" -> OnFocus(t)
          [] r.resp = "Unfocus" -> OnUnfocus(t)
          [] r.resp = "SetValue" -> OnSetValue(t, r.index, r.value)
          [] r.resp = "None" -> OnAppKey(t, event)
          [] OTHER -> t

\* RegexEditHandle as it would be if the filter box kept the focus
RegexEditHandle_focused(s, event) ==
    LET r == FilterHandle(s.filter, event)
        t == [s EXCEPT !.filter = r.filter]
    IN  IF r.resp = "Exit" THEN
            LET cur == current_param(t.base, t.route)
                had == HasRow(t.tail)
                selected == IF had THEN param_index(t.tail) ELSE 0
                rebuilt == new_with_state(cur.p, FilterRegex(t.filter), t.tail.selection)
            IN  IF ~cur.ok \/ ~CanTree(cur.p)
                THEN Panic([t EXCEPT !.mode = "ParamView"])
                ELSE [t EXCEPT !.mode = "ParamView",
                               !.tail = IF had THEN select_param_index(rebuilt, selected)
                                        ELSE rebuilt]
        ELSE t

(***************************************************************************)
(* App::handle_event, mode RegexEdit.                                      *)
(***************************************************************************)
RegexEditHandle(s, event) ==
    LET r == FilterHandle(s.filter, event)
        t == [s EXCEPT !.filter = r.filter]
    IN  IF r.resp = "Exit" THEN
            LET cur == current_param(t.base, t.route)
                had == HasRow(t.tail)
                selected == IF had THEN param_index(t.tail) ELSE 0
                rebuilt == new_with_state(cur.p, FilterRegex(t.filter), t.tail.selection)
            IN  IF ~cur.ok \/ ~CanTree(cur.p)
                THEN Panic([t EXCEPT !.mode = "ParamView", !.filter.input.focused = FALSE])
                ELSE [t EXCEPT !.mode = "ParamView",
                               !.filter.input.focused = FALSE,
                               !.tail = IF had THEN select_param_index(rebuilt, selected)
                                        ELSE rebuilt]
        ELSE t

\* FileOpenHandle as it would be if a save cleared the flag whatever came
\* of it
FileOpenHandle_cleared(s, resp, loaded, saved) ==
    CASE resp = "Open" -> IF loaded.ok THEN set_param(s, loaded.param) ELSE s
      [] resp = "Save" ->
            [s EXCEPT !.unsaved = FALSE, !.mode = "ParamView", !.explorer = "None"]
      [] resp = "Cancel" -> [s EXCEPT !.mode = "ParamView", !.explorer = "None"]
      [] OTHER -> s

(***************************************************************************)
(* App::handle_event, mode FileOpen.  The Explorer and the files are       *)
(* outside this part of the model: resp is the ExplorerResponse, loaded    *)
(* the result of prc::open ([ok, param]), saved whether prc::save is Ok.   *)
(***************************************************************************)
FileOpenHandle(s, resp, loaded, saved) ==
    CASE resp = "Open" -> IF loaded.ok THEN set_param(s, loaded.param) ELSE s
      [] resp = "Save" ->
            [s EXCEPT !.unsaved = IF saved THEN FALSE ELSE @,
                      !.mode = "ParamView",
                      !.explorer = "None"]
      [] resp = "Cancel" -> [s EXCEPT !.mode = "ParamView", !.explorer = "None"]
      [] OTHER -> s

(***************************************************************************)
(* Confirm (src/comp/confirm.rs) and the two confirm modes.                *)
(***************************************************************************)
\* a Confirm whose Enter answers Yes whatever is selected
ConfirmHandle_yes(choice, event) ==
    CASE event.code = "Right" -> [choice |-> FALSE, resp |-> "Handled", yes |-> FALSE]
      [] event.code = "Left" -> [choice |-> TRUE, resp |-> "Handled", yes |-> FALSE]
      [] event.code = "Enter" -> [choice |-> choice, resp |-> "Confirm", yes |-> TRUE]
      [] event.code = "Esc" -> [choice |-> choice, resp |-> "Confirm", yes |-> FALSE]
      [] OTHER -> [choice |-> choice, resp |-> "None", yes |-> FALSE]

\* Confirm::handle_event: the choice after the event, and the response
ConfirmHandle(choice, event) ==
    CASE event.code = "Right" -> [choice |-> FALSE, resp |-> "Handled", yes |-> FALSE]
      [] event.code = "Left" -> [choice |-> TRUE, resp |-> "Handled", yes |-> FALSE]
      [] event.code = "Enter" -> [choice |-> choice, resp |-> "Confirm", yes |-> choice]
      [] event.code = "Esc" -> [choice |-> choice, resp |-> "Confirm", yes |-> FALSE]
      [] OTHER -> [choice |-> choice, resp |-> "None", yes |-> FALSE]

ConfirmOpenHandle(s, event) ==
    LET r == ConfirmHandle(s.confirm, event)
        t == [s EXCEPT !.confirm = r.choice]
    IN  IF r.resp = "Confirm"
        THEN IF r.yes THEN [t EXCEPT !.mode = "FileOpen", !.explorer = "Open", !.confirm = FALSE]
             ELSE [t EXCEPT !.mode = "ParamView", !.confirm = FALSE]
        ELSE t

ConfirmExitHandle(s, event) ==
    LET r == ConfirmHandle(s.confirm, event)
        t == [s EXCEPT !.confirm = r.choice]
    IN  IF r.resp = "Confirm"
        THEN IF r.yes THEN [t EXCEPT !.status = "exited"]
             ELSE [t EXCEPT !.mode = "ParamView", !.confirm = FALSE]
        ELSE t

(***************************************************************************)
(* App::handle_event.  ext is what the collaborators of mode FileOpen      *)
(* answer: [resp, loaded, saved].                                          *)
(***************************************************************************)
handle_event(s, event, ext) ==
    CASE s.mode = "ParamView" -> ParamViewHandle(s, event)
      [] s.mode = "RegexEdit" -> RegexEditHandle(s, event)
      [] s.mode = "FileOpen" -> FileOpenHandle(s, ext.resp, ext.loaded, ext.saved)
      [] s.mode = "ConfirmOpen" -> ConfirmOpenHandle(s, event)
      [] s.mode = "ConfirmExit" -> ConfirmExitHandle(s, event)

\* what prc::open can give: a document, or an error
Loads == {[ok |-> TRUE, param |-> d] : d \in Docs} \cup {[ok |-> FALSE, param |-> Doc2]}

NoExt == [resp |-> "None", loaded |-> [ok |-> FALSE, param |-> Doc2], saved |-> FALSE]

\* the responses Explorer::handle_event can give to an event
\* (src/comp/explorer.rs): Open and Save come from Enter alone, in the
\* explorer's own mode, and Cancel from Esc alone
ExplorerResponses(emode, event) ==
    CASE event.code = "Enter" -> {"Handled"} \cup (IF emode = "Open" THEN {"Open"} ELSE {"Save"})
      [] event.code = "Esc" -> {"Cancel", "Handled"}
      [] OTHER -> {"Handled", "None"}

Exts(s, event) ==
    IF s.mode = "FileOpen"
    THEN UNION {
            CASE r = "Open" -> {[NoExt EXCEPT !.resp = r, !.loaded = l] : l \in Loads}
              [] r = "Save" -> {[NoExt EXCEPT !.resp = r, !.saved = sv] : sv \in BOOLEAN}
              [] OTHER -> {[NoExt EXCEPT !.resp = r]}
            : r \in ExplorerResponses(s.explorer, event)}
    ELSE {NoExt}

\* the characters typed: the model types EditChars into the value editor,
\* FilterChars into the filter box, both up to a length, and '/' in the tree
TypedChars(s) ==
    IF s.mode = "ParamView" /\ HasEditingData(s.tail)
    THEN IF Len(s.tail.editing.input.value) < MaxEditLen THEN EditChars ELSE {}
    ELSE IF s.mode = "RegexEdit"
    THEN IF Len(s.filter.input.value) < MaxFilterLen THEN FilterChars ELSE {}
    ELSE IF s.mode = "ParamView" THEN {"/"}
    ELSE {}

\* whether a text box takes the keys
Typing(s) == (s.mode = "ParamView" /\ HasEditingData(s.tail)) \/ s.mode = "RegexEdit"

(***************************************************************************)
(* The specification: one action per key.  No HashInput is open in it.     *)
(***************************************************************************)
HashIdle ==
    /\ hash_input = HashInputNew(ZeroHash, Healthy(<<>>), Healthy(<<>>))
    /\ label_map = Healthy(<<>>)
    /\ sorted_labels = Healthy(<<>>)
    /\ opened = ZeroHash
    /\ response = "None"

\* no Param is open, and no function of modulo.rs is called
ParamIdle ==
    /\ param_levels = <<ParamNew(Doc2)>>
    /\ param_selected = NoEditor
    /\ param_resp = "None"

ModIdle ==
    /\ mod_a = 0
    /\ mod_b = 0
    /\ mod_m = 1
    /\ mod_out = [op |-> "none", value |-> 0]

\* no Explorer is open
ExpIdle ==
    /\ exp = ExplorerNew(<<>>, "Open")
    /\ exp_resp = [kind |-> "None", path |-> <<>>]

Init ==
    \E d \in Docs :
        /\ base = AppNew(d).base
        /\ mode = AppNew(d).mode
        /\ confirm = AppNew(d).confirm
        /\ explorer = AppNew(d).explorer
        /\ tail = AppNew(d).tail
        /\ route = AppNew(d).route
        /\ filter = AppNew(d).filter
        /\ unsaved = AppNew(d).unsaved
        /\ status = AppNew(d).status
        /\ HashIdle
        /\ ParamIdle
        /\ ModIdle
        /\ ExpIdle

Becomes(n) ==
    /\ base' = n.base
    /\ mode' = n.mode
    /\ confirm' = n.confirm
    /\ explorer' = n.explorer
    /\ tail' = n.tail
    /\ route' = n.route
    /\ filter' = n.filter
    /\ unsaved' = n.unsaved
    /\ status' = n.status
    /\ UNCHANGED <<hash_vars, param_vars, mod_vars, exp_vars>>

Press(event) ==
    \E ext \in Exts(State, event) : Becomes(handle_event(State, event, ext))

Running == status = "running"

KeyUp == Running /\ Press(Key("Up"))
KeyDown == Running /\ Press(Key("Down"))
KeyEnter == Running /\ Press(Key("Enter"))
KeyBackspace == Running /\ Press(Key("Backspace"))
KeyEsc == Running /\ Press(Key("Esc"))
\* Left and Right are keys of the Confirm alone
KeyLeft == Running /\ mode \in {"ConfirmOpen", "ConfirmExit"} /\ Press(Key("Left"))
KeyRight == Running /\ mode \in {"ConfirmOpen", "ConfirmExit"} /\ Press(Key("Right"))
KeyChar == Running /\ \E c \in TypedChars(State) : Press(CharKey(c))
\* Ctrl+O and Ctrl+S are pressed while no text box takes the keys
KeyCtrlO == Running /\ ~Typing(State) /\ Press(CtrlKey("o"))
KeyCtrlS == Running /\ ~Typing(State) /\ Press(CtrlKey("s"))

Next ==
    \/ KeyUp
    \/ KeyDown
    \/ KeyEnter
    \/ KeyBackspace
    \/ KeyEsc
    \/ KeyLeft
    \/ KeyRight
    \/ KeyChar
    \/ KeyCtrlO
    \/ KeyCtrlS

Spec == Init /\ [][Next]_vars

(***************************************************************************)
(* The value editor alone: the program on a document of one value, with    *)
(* longer texts typed into the editor.  The texts typed are the ValueTexts *)
(* and what is typed on the way to them: the limits of the integer types   *)
(* and their neighbours, signs, leading zeros, characters that are no      *)
(* digit, and the two texts of a bool.                                     *)
(***************************************************************************)
ValueTexts ==
    {<<"-">>,
     <<"+", "9">>,
     <<"0", "0", "7">>,
     <<"-", "0">>,
     <<"9", "-">>,
     <<" ", "7">>,
     <<"1", "x">>,
     <<"t", "r", "u", "e">>,
     <<"f", "a", "l", "s", "e">>,
     <<"1", "2", "7">>,
     <<"1", "2", "8">>,
     <<"-", "1", "2", "8">>,
     <<"-", "1", "2", "9">>,
     <<"2", "5", "5">>,
     <<"2", "5", "6">>,
     <<"3", "2", "7", "6", "7">>,
     <<"3", "2", "7", "6", "8">>,
     <<"-", "3", "2", "7", "6", "8">>,
     <<"-", "3", "2", "7", "6", "9">>,
     <<"6", "5", "5", "3", "5">>,
     <<"6", "5", "5", "3", "6">>,
     <<"2", "1", "4", "7", "4", "8", "3", "6", "4", "7">>,
     <<"2", "1", "4", "7", "4", "8", "3", "6", "4", "8">>,
     <<"-", "2", "1", "4", "7", "4", "8", "3", "6", "4", "8">>,
     <<"-", "2", "1", "4", "7", "4", "8", "3", "6", "4", "9">>,
     <<"4", "2", "9", "4", "9", "6", "7", "2", "9", "5">>,
     <<"4", "2", "9", "4", "9", "6", "7", "2", "9", "6">>,
     <<"9", "9", "9", "9", "9", "9", "9", "9", "9", "9", "9">>}

ValueChars == UNION {{p[i] : i \in 1..Len(p)} : p \in ValueTexts}

\* whether the text is the beginning of one of the ValueTexts
TypedSoFar(text) ==
    \E p \in ValueTexts : Len(text) <= Len(p) /\ SubSeq(p, 1, Len(text)) = text

\* the values the document of one value starts with
Leaves ==
    <<PBool(FALSE), PInt("I8", -1), PInt("U8", 2), PInt("I16", 3), PInt("U16", 6),
      PInt("I32", -2), PInt("U32", Wide(0, 4)), PStr(<<"x">>)>>

LeafDoc(leaf) == PStruct(<<Entry(<<"a">>, leaf)>>)

InitEdit ==
    \E i \in 1..Len(Leaves) : LET leaf == Leaves[i] IN
        /\ base = AppNew(LeafDoc(leaf)).base
        /\ mode = AppNew(LeafDoc(leaf)).mode
        /\ confirm = AppNew(LeafDoc(leaf)).confirm
        /\ explorer = AppNew(LeafDoc(leaf)).explorer
        /\ tail = AppNew(LeafDoc(leaf)).tail
        /\ route = AppNew(LeafDoc(leaf)).route
        /\ filter = AppNew(LeafDoc(leaf)).filter
        /\ unsaved = AppNew(LeafDoc(leaf)).unsaved
        /\ status = AppNew(LeafDoc(leaf)).status
        /\ HashIdle
        /\ ParamIdle
        /\ ModIdle
        /\ ExpIdle

\* Enter opens the editor on the value, and submits its text
EditEnter == Running /\ mode = "ParamView" /\ Press(Key("Enter"))
EditChar ==
    /\ Running /\ mode = "ParamView" /\ HasEditingData(tail)
    /\ \E c \in ValueChars :
          /\ TypedSoFar(Append(tail.editing.input.value, c))
          /\ Press(CharKey(c))
EditBackspace ==
    Running /\ mode = "ParamView" /\ HasEditingData(tail) /\ Press(Key("Backspace"))
EditEsc ==
    Running /\ mode = "ParamView" /\ HasEditingData(tail) /\ Press(Key("Esc"))

NextEdit ==
    \/ EditEnter
    \/ EditChar
    \/ EditBackspace
    \/ EditEsc

SpecEdit == InitEdit /\ [][NextEdit]_vars

(***************************************************************************)
(* The hash editor alone: one HashInput from HashInput::new to the         *)
(* response that closes it (Submit or Cancel), over a label map and its    *)
(* sorted labels.  A mutex is poisoned when another thread panics while it *)
(* holds the lock, at any moment, and stays poisoned.  The texts typed are *)
(* the HashTexts and what is typed on the way to them: labels of the map   *)
(* and beginnings of labels, texts that are no label, and hexadecimal      *)
(* literals, well formed or not.                                           *)
(***************************************************************************)
HashTexts ==
    <<<<"a", "l", "p", "h", "a", "b", "e", "t">>,
      <<"a", "l", "p", "h", "x">>,
      <<"b", "e", "t", "a">>,
      <<"c">>,
      <<"0", "x", "1", "F">>,
      <<"0", "x", "+", "1">>,
      <<"0", "x", "g">>,
      <<"0", "x", "0", "5", "d", "0", "e", "0", "3", "9", "6", "a">>,
      <<"0", "x", "0", "0", "0", "0", "0", "0", "0", "0", "0", "0">>,
      <<"0", "x", "0", "0", "0", "0", "0", "0", "0", "0", "0", "0", "0", "0", "0", "0", "0", "0", "1">>,
      <<"0", "x", "1", "2", "3", "4", "5", "6", "7", "8", "1", "2", "3", "4", "5", "6", "7", "8", "1">>,
      <<"z", "0">>,
      <<"z", "1", "0", "0", "0">>>>

HashChars == UNION {{HashTexts[k][i] : i \in 1..Len(HashTexts[k])} : k \in 1..Len(HashTexts)}

\* whether the text is the beginning of one of the HashTexts
HashTypedSoFar(text) ==
    \E k \in 1..Len(HashTexts) : starts_with(HashTexts[k], text)

\* the labels of the map: none, three, or one more than the limit of
\* update_matches ("z0000" to "z1000")
NoLabels == <<>>
GreekLabels == <<<<"a", "l", "p", "h", "a">>, <<"a", "l", "p", "h", "a", "b", "e", "t">>, <<"b", "e", "t", "a">>>>
ManyLabels ==
    [i \in 1..(MatchLimit + 1) |->
        <<"z", DigitChar(((i - 1) \div 1000) % 10), DigitChar(((i - 1) \div 100) % 10),
          DigitChar(((i - 1) \div 10) % 10), DigitChar((i - 1) % 10)>>]

\* the editors opened: the labels of the map and the hash edited
Sessions ==
    <<[labels |-> GreekLabels, hash |-> hash40(<<"a", "l", "p", "h", "a">>)],
      [labels |-> GreekLabels, hash |-> hash40(<<"c">>)],
      [labels |-> GreekLabels, hash |-> ZeroHash],
      [labels |-> NoLabels, hash |-> hash40(<<"a", "l", "p", "h", "a">>)],
      [labels |-> ManyLabels, hash |-> ZeroHash]>>

\* the App beside the editor: as App::new leaves it, and no key goes to it
AppIdle ==
    /\ base = AppNew(Doc2).base
    /\ mode = AppNew(Doc2).mode
    /\ confirm = AppNew(Doc2).confirm
    /\ explorer = AppNew(Doc2).explorer
    /\ tail = AppNew(Doc2).tail
    /\ route = AppNew(Doc2).route
    /\ filter = AppNew(Doc2).filter
    /\ unsaved = AppNew(Doc2).unsaved
    /\ status = AppNew(Doc2).status

InitHash ==
    /\ AppIdle
    /\ ParamIdle
    /\ ModIdle
    /\ ExpIdle
    /\ \E k \in 1..Len(Sessions) : LET labels == Sessions[k].labels IN
        /\ label_map = Healthy(labels)
        /\ sorted_labels = Healthy(labels)
        /\ opened = Sessions[k].hash
        /\ hash_input = HashInputNew(Sessions[k].hash, Healthy(labels), Healthy(labels))
        /\ response = "None"

\* the editor is open until it answers Submit or Cancel
HashOpen == response \notin {"Submit", "Cancel"}

HashPress(event) ==
    LET r == HashInputHandle(hash_input, event, label_map, sorted_labels) IN
    /\ hash_input' = r.input
    /\ response' = r.resp
    /\ UNCHANGED <<label_map, sorted_labels, opened>>
    /\ UNCHANGED <<app_vars, param_vars, mod_vars, exp_vars>>

HashChar ==
    /\ HashOpen
    /\ \E c \in HashChars :
          /\ HashTypedSoFar(Append(hash_input.value, c))
          /\ HashPress(CharKey(c))
HashBackspace == HashOpen /\ HashPress(Key("Backspace"))
\* Down is pressed until the cursor is at MaxCursor
HashDown ==
    /\ HashOpen
    /\ hash_input.match_num.some => hash_input.match_num.n < MaxCursor
    /\ HashPress(Key("Down"))
HashUp == HashOpen /\ HashPress(Key("Up"))
HashTab == HashOpen /\ HashPress(Key("Tab"))
HashEnter == HashOpen /\ HashPress(Key("Enter"))
HashEsc == HashOpen /\ HashPress(Key("Esc"))
\* a key that is none of the above
HashLeft == HashOpen /\ HashPress(Key("Left"))

PoisonLabelMap ==
    /\ HashOpen /\ ~label_map.poisoned
    /\ label_map' = [label_map EXCEPT !.poisoned = TRUE]
    /\ UNCHANGED <<hash_input, sorted_labels, opened, response>>
    /\ UNCHANGED <<app_vars, param_vars, mod_vars, exp_vars>>

PoisonSortedLabels ==
    /\ HashOpen /\ ~sorted_labels.poisoned
    /\ sorted_labels' = [sorted_labels EXCEPT !.poisoned = TRUE]
    /\ UNCHANGED <<hash_input, label_map, opened, response>>
    /\ UNCHANGED <<app_vars, param_vars, mod_vars, exp_vars>>

NextHash ==
    \/ HashChar
    \/ HashBackspace
    \/ HashDown
    \/ HashUp
    \/ HashTab
    \/ HashEnter
    \/ HashEsc
    \/ HashLeft
    \/ PoisonLabelMap
    \/ PoisonSortedLabels

SpecHash == InitHash /\ [][NextHash]_vars

(***************************************************************************)
(* A fourth specification: a Param over a document, as Root::open builds   *)
(* it (src/components/root.rs), and the keys it is sent.  With an editor   *)
(* open the key goes to the editor, and the editor answers.                *)
(***************************************************************************)
\* a document with a float, a string and a list of lists
Doc3 ==
    PStruct(<<
        Entry(<<"a">>, PFloat(1)),
        Entry(<<"b">>, PStr(<<"x">>)),
        Entry(<<"c">>, PList(<<PList(<<PInt("U16", 7)>>), PList(<<>>)>>))
    >>)

ParamDocs == {Doc1, Doc2, Doc3}

\* the values an editor can hold
EditorValues(kind) ==
    CASE kind = "Bool" -> {PBool(FALSE), PBool(TRUE)}
      [] kind = "Str" -> {PStr(<<"x">>), PStr(<<>>)}
      [] OTHER -> {PInt(kind, 0), PInt(kind, 7)}

\* what an editor can answer to an event
EditorAnswers(sel, resp) == {[resp |-> resp, node |-> v] : v \in EditorValues(sel.kind)}

NoAnswer == [resp |-> "Other", node |-> PBool(FALSE)]

InitParam ==
    /\ AppIdle
    /\ HashIdle
    /\ ModIdle
    /\ ExpIdle
    /\ \E d \in ParamDocs : param_levels = <<ParamNew(d)>>
    /\ param_selected = NoEditor
    /\ param_resp = "None"

ParamSend(event, ed) ==
    LET r == ParamHandle(param_levels, param_selected, event, ed) IN
    /\ param_levels' = r.levels
    /\ param_selected' = r.sel
    /\ param_resp' = r.resp
    /\ UNCHANGED <<app_vars, hash_vars, mod_vars, exp_vars>>

Tabling == param_selected.kind = "None"

ParamKeyUp == Tabling /\ ParamSend(Key("Up"), NoAnswer)
ParamKeyDown == Tabling /\ ParamSend(Key("Down"), NoAnswer)
ParamKeyEnter == Tabling /\ ParamSend(Key("Enter"), NoAnswer)
ParamKeyBackspace == Tabling /\ ParamSend(Key("Backspace"), NoAnswer)
ParamKeyEsc == Tabling /\ ParamSend(Key("Esc"), NoAnswer)
EditorSubmit ==
    ~Tabling /\ \E ed \in EditorAnswers(param_selected, "Submit") : ParamSend(Key("Enter"), ed)
EditorCancel ==
    ~Tabling /\ \E ed \in EditorAnswers(param_selected, "Cancel") : ParamSend(Key("Esc"), ed)
EditorOther ==
    ~Tabling /\ \E ed \in EditorAnswers(param_selected, "Other") : ParamSend(Key("Up"), ed)

NextParam ==
    \/ ParamKeyUp
    \/ ParamKeyDown
    \/ ParamKeyEnter
    \/ ParamKeyBackspace
    \/ ParamKeyEsc
    \/ EditorSubmit
    \/ EditorCancel
    \/ EditorOther

SpecParam == InitParam /\ [][NextParam]_vars

(***************************************************************************)
(* A fifth specification: the two editors of a document side by side, the  *)
(* App and a Param, each started on a document and sent its keys while the *)
(* other is idle.                                                          *)
(***************************************************************************)
InitDocument == Init \/ InitParam

NextDocument ==
    \/ ParamIdle /\ Next
    \/ AppIdle /\ NextParam

SpecDocument == InitDocument /\ [][NextDocument]_vars

(***************************************************************************)
(* The Explorer alone: one Explorer from Explorer::new, in either mode and *)
(* on any directory of the disk, to the response that closes it.  The App  *)
(* drops the explorer on Save and on Cancel; on Open it keeps it when the  *)
(* file cannot be loaded.  Names are typed from ExpChars, up to            *)
(* MaxNameLen characters.                                                  *)
(***************************************************************************)
MaxNameLen == 2
ExpChars == {"d", "f", "F"}

InitExplorer ==
    /\ AppIdle
    /\ HashIdle
    /\ ParamIdle
    /\ ModIdle
    /\ \E path \in DiskDirs, emode \in {"Open", "Save"} : exp = ExplorerNew(path, emode)
    /\ exp_resp = [kind |-> "None", path |-> <<>>]

\* the explorer is open until it answers Save or Cancel
ExpOpen == exp_resp.kind \notin {"Save", "Cancel"}

ExpPress(event) ==
    LET r == ExplorerHandle(exp, event) IN
    /\ exp' = r.explorer
    /\ exp_resp' = r.resp
    /\ UNCHANGED <<app_vars, hash_vars, param_vars, mod_vars>>

\* the text box of the explorer takes the keys
Naming == exp.input_active /\ ~exp.confirm_overwrite.some

ExpUp == ExpOpen /\ ExpPress(Key("Up"))
ExpDown == ExpOpen /\ ExpPress(Key("Down"))
ExpEnter == ExpOpen /\ ExpPress(Key("Enter"))
ExpBackspace == ExpOpen /\ ExpPress(Key("Backspace"))
ExpEsc == ExpOpen /\ ExpPress(Key("Esc"))
ExpLeft == ExpOpen /\ ExpPress(Key("Left"))
ExpRight == ExpOpen /\ ExpPress(Key("Right"))
ExpSlash == ExpOpen /\ ~Naming /\ ExpPress(CharKey("/"))
ExpChar ==
    /\ ExpOpen /\ Naming /\ Len(exp.input.value) < MaxNameLen
    /\ \E c \in ExpChars : ExpPress(CharKey(c))

NextExplorer ==
    \/ ExpUp
    \/ ExpDown
    \/ ExpEnter
    \/ ExpBackspace
    \/ ExpEsc
    \/ ExpLeft
    \/ ExpRight
    \/ ExpSlash
    \/ ExpChar

SpecExplorer == InitExplorer /\ [][NextExplorer]_vars

(***************************************************************************)
(* The functions of modulo.rs alone, on an unsigned type of ModBits bits:  *)
(* every augend and addend of the type and every modulus but 0.            *)
(***************************************************************************)
ModBits == 3
ModMax == 2 ^ ModBits - 1

InitMod ==
    /\ AppIdle
    /\ HashIdle
    /\ ParamIdle
    /\ ExpIdle
    /\ mod_a \in 0..ModMax
    /\ mod_b \in 0..ModMax
    /\ mod_m \in 1..ModMax
    /\ mod_out = [op |-> "none", value |-> 0]

Returns(op, value) ==
    /\ mod_out' = [op |-> op, value |-> value]
    /\ UNCHANGED <<mod_a, mod_b, mod_m>>
    /\ UNCHANGED <<app_vars, hash_vars, param_vars, exp_vars>>

CallCompliment == mod_m > 0 /\ Returns("compliment", compliment(mod_a, mod_m, ModMax))
CallAddMod == mod_m > 0 /\ Returns("add_mod", add_mod(mod_a, mod_b, mod_m, ModMax))
CallSubMod == mod_m > 0 /\ Returns("sub_mod", sub_mod(mod_a, mod_b, mod_m, ModMax))

NextMod ==
    \/ CallCompliment
    \/ CallAddMod
    \/ CallSubMod

SpecMod == InitMod /\ [][NextMod]_vars

(***************************************************************************)
(* What the claims speak of.                                               *)
(***************************************************************************)
\* the node the frames lead to when each frame is followed by the source
\* index of the child that was entered, as [ok, p]
RECURSIVE WalkSrc(_, _)
WalkSrc(ptr, rt) ==
    IF Len(rt) = 0 THEN [ok |-> TRUE, p |-> ptr]
    ELSE IF ~is_parent(ptr) THEN [ok |-> FALSE, p |-> ptr]
    ELSE IF Head(rt).index >= NumKids(ptr) THEN [ok |-> FALSE, p |-> ptr]
    ELSE WalkSrc(Kid(ptr, Head(rt).index), Tail(rt))

\* the node of the level the App works on
Active == current_param(base, route).p

\* the tree shows rows of this node: every row is the row of the child at
\* its source index
Shows(tree, node) ==
    /\ is_parent(node)
    /\ tree.data.kind = node.k
    /\ \A j \in 1..Len(tree.data.rows) :
          /\ tree.data.rows[j].index < NumKids(node)
          /\ tree.data.rows[j] = TreeRow(node, tree.data.rows[j].index)

\* the tree is browsed: the App is in param view and no editor is open
Browsing == Running /\ mode = "ParamView" /\ ~tail.editing.some

\* a value is being edited
Editing == Running /\ mode = "ParamView" /\ HasEditingData(tail)

\* a step that pushes a frame: Enter on a composite row
EnterStep == Len(route') = Len(route) + 1

\* a step that pops a frame: exit
ExitStep == Len(route') = Len(route) - 1

\* a step that loads a document
LoadStep == mode = "FileOpen" /\ mode' = "ParamView" /\ explorer = "Open"

(***************************************************************************)
(* C1  Take/replace integrity.  Whatever is edited after a composite child *)
(* was entered stays inside that child: a step that changes the document   *)
(* (other than loading one) changes the one element under edit, in the     *)
(* composite the frames lead to by the source indices of the rows that     *)
(* were entered, and leaves every other element of it, its child count and *)
(* every sibling of it on every level unchanged.                           *)
(***************************************************************************)
C1_TakeReplaceIntegrity ==
    [][(base' # base /\ ~LoadStep) =>
          LET entered == WalkSrc(base, route)
              index == current_row(tail).index
          IN  /\ entered.ok
              /\ is_parent(entered.p)
              /\ index < NumKids(entered.p)
              /\ WalkSrc(base', route).ok
              /\ NumKids(WalkSrc(base', route).p) = NumKids(entered.p)
              /\ \A j \in 0..(NumKids(entered.p) - 1) :
                    j # index => Kid(WalkSrc(base', route).p, j) = Kid(entered.p, j)
              /\ \A k \in 1..Len(route) :
                    LET above == WalkSrc(base, SubSeq(route, 1, k - 1)).p
                        above2 == WalkSrc(base', SubSeq(route, 1, k - 1)).p
                    IN  \A j \in 0..(NumKids(above) - 1) :
                            j # route[k].index => Kid(above2, j) = Kid(above, j)
    ]_vars

(***************************************************************************)
(* C3  Enter on a selected composite row pushes one frame and makes the    *)
(* child at the row's source index, in the unfiltered children of the      *)
(* active node, the new active level, with row 0 selected, under every     *)
(* filter.                                                                 *)
(***************************************************************************)
C3_EnterOpensSelectedChild ==
    [][EnterStep =>
          LET child == Kid(Active, current_row(tail).index)
          IN  /\ status' = "running"
              /\ route' = Append(route, RouteInfoNew(tail))
              /\ current_param(base', route').ok
              /\ current_param(base', route').p = child
              /\ tail' = TreeNew(child, FilterRegex(filter))
              /\ tail'.selection = 0
    ]_vars

(***************************************************************************)
(* C9  The length of the navigation stack is the nesting depth: Enter on   *)
(* a composite row adds one frame, exit with a non-empty stack removes     *)
(* one, load empties the stack, nothing else changes it, and the active    *)
(* level is always the node reached from the root by following the frames  *)
(* in order.                                                               *)
(***************************************************************************)
ActiveIsFrames == WalkSrc(base, route).ok /\ Shows(tail, WalkSrc(base, route).p)

StackStep ==
    \/ route' = route
    \/ /\ EnterStep
       /\ Browsing /\ HasRow(tail) /\ current_row(tail).is_parent
       /\ SubSeq(route', 1, Len(route)) = route
    \/ /\ ExitStep
       /\ Browsing
       /\ route' = SubSeq(route, 1, Len(route) - 1)
    \/ LoadStep /\ route' = <<>>

C9_StackIsDepth == [](Running => ActiveIsFrames) /\ [][StackStep]_vars

(***************************************************************************)
(* The state after a key is pressed in a state (outside mode FileOpen,     *)
(* where the collaborators decide).                                        *)
(***************************************************************************)
After(s, event) == handle_event(s, event, NoExt)

(***************************************************************************)
(* Enter on a composite row, where it opens a level, followed by Backspace *)
(* gives back the state Enter was pressed in.                              *)
(***************************************************************************)
SymmetryWhereEntered ==
    (Browsing /\ HasRow(tail) /\ current_row(tail).is_parent) =>
        LET entered == After(State, Key("Enter"))
            back == After(entered, Key("Backspace"))
        IN  entered.status = "running" =>
                /\ Len(entered.route) = Len(route) + 1
                /\ back.tail.selection = tail.selection
                /\ HasRow(back.tail)
                /\ current_row(back.tail).index = current_row(tail).index
                /\ back.filter = filter
                /\ Len(back.route) = Len(route)
                /\ back.base = base
                /\ back = State

(***************************************************************************)
(* C2  Navigation symmetry.  On every composite row, Enter immediately     *)
(* followed by Backspace gives back the state Enter was pressed in: the    *)
(* selected row and its source index, the filter, the length of the        *)
(* navigation stack and the whole document.                                *)
(***************************************************************************)
C2_NavigationSymmetry ==
    (Browsing /\ HasRow(tail) /\ current_row(tail).is_parent) =>
        LET entered == After(State, Key("Enter"))
            back == After(entered, Key("Backspace"))
        IN  /\ entered.status = "running"
            /\ Len(entered.route) = Len(route) + 1
            /\ back.tail.selection = tail.selection
            /\ HasRow(back.tail)
            /\ current_row(back.tail).index = current_row(tail).index
            /\ back.filter = filter
            /\ Len(back.route) = Len(route)
            /\ back.base = base
            /\ back = State

\* a composite row below the first is selected, one level down, under a
\* filter, and Enter opens it
C2_Witness ==
    /\ Browsing /\ HasRow(tail) /\ current_row(tail).is_parent
    /\ tail.selection > 0
    /\ Len(route) > 0
    /\ Len(tail.data.rows) < NumKids(Active)
    /\ unsaved
    /\ After(State, Key("Enter")).status = "running"
    /\ After(State, Key("Enter")).route = Append(route, RouteInfoNew(tail))

(***************************************************************************)
(* C4  Submitting a scalar edit closes the editor with the node set to the *)
(* parsed text exactly when the text parses for the node's type; when it   *)
(* does not, the editor stays open with the parse error set, and the node, *)
(* the rest of the document, the unsaved flag and everything else stay as  *)
(* they were: the program goes on in param view.                           *)
(***************************************************************************)
C4_SubmitParsesOrKeeps ==
    Editing =>
        LET text == tail.editing.input.value
            index == current_row(tail).index
            node == Kid(Active, index)
            parsed == ParseInto(node, text)
            next == After(State, Key("Enter"))
        IN  /\ next.status = "running"
            /\ next.mode = "ParamView"
            /\ next.route = route
            /\ current_param(next.base, next.route).ok
            /\ IF parsed.ok
               THEN /\ ~next.tail.editing.some
                    /\ Kid(current_param(next.base, next.route).p, index) = parsed.child
                    /\ next.unsaved
               ELSE /\ next.tail.editing.some
                    /\ next.tail.editing.input.error = "[Parse error]"
                    /\ next.tail.editing.input.value = text
                    /\ next = [State EXCEPT !.tail.editing.input.error = "[Parse error]"]

\* an editor holds a text that does not parse, a rejected submit has set
\* its error, and an earlier submit was accepted
C4_Witness ==
    /\ Editing
    /\ tail.editing.input.error = "[Parse error]"
    /\ ~ParseInto(Kid(Active, current_row(tail).index), tail.editing.input.value).ok
    /\ Len(tail.editing.input.value) > 0
    /\ unsaved

(***************************************************************************)
(* C5  Esc in an open editor, whatever was typed, closes the editor and    *)
(* changes nothing else: the edited node, the document and the unsaved     *)
(* flag are as they were.                                                  *)
(***************************************************************************)
C5_CancelKeepsDocument ==
    Editing =>
        LET next == After(State, Key("Esc"))
        IN  /\ ~next.tail.editing.some
            /\ next.base = base
            /\ next.unsaved = unsaved
            /\ next = [State EXCEPT !.tail.editing = NoEditing]

\* an editor with a text that would parse to another value, and with the
\* error of a rejected submit, in a document that has no unsaved edit
C5_Witness ==
    /\ Editing
    /\ ~unsaved
    /\ Len(route) > 0
    /\ tail.editing.input.error = "[Parse error]"
    /\ LET node == Kid(Active, current_row(tail).index)
       IN  /\ ParseInto(node, tail.editing.input.value).ok
           /\ ParseInto(node, tail.editing.input.value).child # node

(***************************************************************************)
(* C6  Source-index stability.  Every row on the screen carries as its     *)
(* index the position of its child among all the children of the active    *)
(* node, whatever the filter: the row's name, type and value are those of  *)
(* that child.  The rows are in ascending order of index, and they are     *)
(* exactly the children the filter lets through: under a filter that       *)
(* matches the second and fourth of four children the indices are 1, 3.    *)
(***************************************************************************)
Visible(node, regex) ==
    {i \in 0..(NumKids(node) - 1) : regex.ok => is_match(regex, RowName(node, i))}

RowIndices(tree) == [j \in 1..Len(tree.data.rows) |-> tree.data.rows[j].index]

C6_SourceIndexStable ==
    Running =>
        LET rows == tail.data.rows
        IN  /\ is_parent(Active)
            /\ \A j \in 1..Len(rows) :
                  /\ rows[j].index \in 0..(NumKids(Active) - 1)
                  /\ rows[j] = TreeRow(Active, rows[j].index)
            /\ \A j \in 1..(Len(rows) - 1) : rows[j].index < rows[j + 1].index
            /\ mode # "RegexEdit" =>
                  {rows[j].index : j \in 1..Len(rows)} = Visible(Active, FilterRegex(filter))
            /\ (NumKids(Active) = 4 /\ mode # "RegexEdit"
                    /\ Visible(Active, FilterRegex(filter)) = {1, 3}) =>
                  RowIndices(tail) = <<1, 3>>

\* of four children the filter shows the second and the fourth
C6_Witness ==
    /\ Running /\ mode = "ParamView"
    /\ NumKids(Active) = 4
    /\ RowIndices(tail) = <<1, 3>>
    /\ filter.regex.ok /\ filter.regex.pat = <<"b">>

(***************************************************************************)
(* C7  When the filter box is left (Enter with a valid regex, or Esc) the  *)
(* rows are derived again from the active node under the filter, and the   *)
(* selection is on the row that shows the child that was selected before,  *)
(* found by its source index; when that child is no longer shown, the      *)
(* selection is on row 0.  The row position is not what is carried over.   *)
(***************************************************************************)
FilterLeft(event) ==
    LET next == After(State, event)
        index == current_row(tail).index
    IN  next.mode = "ParamView" =>
            /\ next.status = "running"
            /\ next.base = base /\ next.route = route
            /\ next.tail.data = apply_filter(TreeDataNew(Active), FilterRegex(next.filter))
            /\ HasRow(tail) =>
                  IF index \in {next.tail.data.rows[j].index : j \in 1..Len(next.tail.data.rows)}
                  THEN HasRow(next.tail) /\ current_row(next.tail).index = index
                  ELSE next.tail.selection = 0

C7_FilterChangeReselects ==
    (Running /\ mode = "RegexEdit") => FilterLeft(Key("Enter")) /\ FilterLeft(Key("Esc"))

\* submitting the filter moves the selected child to another row
C7_Witness ==
    /\ Running /\ mode = "RegexEdit" /\ HasRow(tail)
    /\ LET next == After(State, Key("Enter"))
       IN  /\ next.mode = "ParamView"
           /\ HasRow(next.tail)
           /\ current_row(next.tail).index = current_row(tail).index
           /\ next.tail.selection # tail.selection
           /\ next.tail.selection # 0

(***************************************************************************)
(* C8  A submitted edit is written to the child of the active node at the  *)
(* source index of the selected row, and to no other child, no other node  *)
(* of the document: the row's position plays no part.                      *)
(***************************************************************************)
C8_EditReachesSelectedSource ==
    Editing =>
        LET index == current_row(tail).index
            parsed == ParseInto(Kid(Active, index), tail.editing.input.value)
            next == After(State, Key("Enter"))
            after == current_param(next.base, next.route).p
        IN  /\ next.route = route
            /\ NumKids(after) = NumKids(Active)
            /\ \A j \in 0..(NumKids(Active) - 1) :
                  j # index => Kid(after, j) = Kid(Active, j)
            /\ parsed.ok => Kid(after, index) = parsed.child
            /\ ~parsed.ok => Kid(after, index) = Kid(Active, index)
            /\ next.base = WalkSet(base, route, SetKid(Active, index, Kid(after, index)))

\* the edited row is not at the position of its child, and the text gives
\* the child a new value
C8_Witness ==
    /\ Editing
    /\ tail.selection # current_row(tail).index
    /\ LET node == Kid(Active, current_row(tail).index)
           parsed == ParseInto(node, tail.editing.input.value)
       IN  parsed.ok /\ parsed.child # node

(***************************************************************************)
(* C10  Backspace at the root level, where the navigation stack is empty,  *)
(* changes nothing: the document, the selection, the filter, the mode and  *)
(* the unsaved flag stay, and the program goes on.                         *)
(***************************************************************************)
C10_ExitAtRootIsNoOp ==
    (Browsing /\ route = <<>>) =>
        LET next == After(State, Key("Backspace"))
        IN  /\ next.status = "running"
            /\ next.mode = mode
            /\ next.base = base
            /\ next.tail = tail
            /\ next.filter = filter
            /\ next.unsaved = unsaved
            /\ next = State

\* the root level, with an unsaved edit, under a filter, the selection below
\* the first row
C10_Witness ==
    /\ Browsing /\ route = <<>>
    /\ unsaved
    /\ tail.selection > 0
    /\ Len(tail.data.rows) < NumKids(base)

(***************************************************************************)
(* C11  Wrap-around selection.  At a level that shows n >= 1 rows the      *)
(* selected row is always one of 0..n-1; Down on the last row selects row  *)
(* 0, Up on row 0 selects row n-1, and every other Up or Down moves the    *)
(* selection by exactly one row.  Nothing but the selection changes.       *)
(***************************************************************************)
C11_SelectionWraps ==
    LET n == Len(tail.data.rows)
        at == tail.selection
    IN  /\ (Running /\ n >= 1) => at \in 0..(n - 1)
        /\ (Browsing /\ n >= 1) =>
              /\ After(State, Key("Down")) =
                    [State EXCEPT !.tail.selection = IF at = n - 1 THEN 0 ELSE at + 1]
              /\ After(State, Key("Up")) =
                    [State EXCEPT !.tail.selection = IF at = 0 THEN n - 1 ELSE at - 1]

\* the last of three rows is selected, Down selects the first
C11_Witness ==
    /\ Browsing
    /\ Len(tail.data.rows) = 3
    /\ tail.selection = 2
    /\ After(State, Key("Down")).tail.selection = 0
    /\ After(After(State, Key("Down")), Key("Up")).tail.selection = 2

(***************************************************************************)
(* C12  Enter on a composite that has no children shows an empty level,    *)
(* and at a level that shows no row (the composite is empty, or the filter *)
(* lets no child through) Up, Down and Enter do nothing: the program goes  *)
(* on, and the document, the navigation stack and the editor are as they   *)
(* were.                                                                   *)
(***************************************************************************)
EmptyView == Browsing /\ tail.data.rows = <<>>

QuietOnEmptyView ==
    EmptyView =>
        /\ After(State, Key("Up")) = State
        /\ After(State, Key("Down")) = State
        /\ After(State, Key("Enter")) = State

EntersEmptyComposite ==
    /\ EnterStep /\ Browsing /\ HasRow(tail)
    /\ NumKids(Kid(Active, current_row(tail).index)) = 0

C12_EmptyViewIsQuiet ==
    /\ []QuietOnEmptyView
    /\ [][EntersEmptyComposite => (status' = "running" /\ tail'.data.rows = <<>>)]_vars

(***************************************************************************)
(* The number a text denotes, told from its characters alone: a numeral is *)
(* an optional sign and one or more digits; its magnitude is its digits    *)
(* without leading zeros; it is in the range of a type when its magnitude  *)
(* is not past the limit of the type on its side of zero.                  *)
(***************************************************************************)
Signed(text) == Len(text) > 0 /\ text[1] \in {"+", "-"}
Unsigned(text) == IF Signed(text) THEN Tail(text) ELSE text
Numeral(text) == Len(Unsigned(text)) > 0 /\ AllDigits(Unsigned(text))
Negative(text) == Len(text) > 0 /\ text[1] = "-"

RECURSIVE NoLeadingZeros(_)
NoLeadingZeros(digits) ==
    IF Len(digits) > 1 /\ Head(digits) = "0" THEN NoLeadingZeros(Tail(digits)) ELSE digits

Magnitude(text) == NoLeadingZeros(Unsigned(text))

\* the numeral as format!("{}", v) writes the number
Canonical(text) ==
    IF Negative(text) /\ Magnitude(text) # <<"0">>
    THEN <<"-">> \o Magnitude(text) ELSE Magnitude(text)

\* a <= b, for digits without leading zeros
DigitsLeq(a, b) ==
    \/ Len(a) < Len(b)
    \/ /\ Len(a) = Len(b)
       /\ \/ a = b
          \/ \E i \in 1..Len(a) :
                /\ SubSeq(a, 1, i - 1) = SubSeq(b, 1, i - 1)
                /\ DigitVal(a[i]) < DigitVal(b[i])

\* the magnitude of the greatest number of the type
MaxDigits(kind) ==
    CASE kind = "I8" -> <<"1", "2", "7">> [] kind = "U8" -> <<"2", "5", "5">>
      [] kind = "I16" -> <<"3", "2", "7", "6", "7">> [] kind = "U16" -> <<"6", "5", "5", "3", "5">>
      [] kind = "I32" -> <<"2", "1", "4", "7", "4", "8", "3", "6", "4", "7">>
      [] kind = "U32" -> <<"4", "2", "9", "4", "9", "6", "7", "2", "9", "5">>

\* the magnitude of the least number of the type
MinDigits(kind) ==
    CASE kind = "I8" -> <<"1", "2", "8">> [] kind = "I16" -> <<"3", "2", "7", "6", "8">>
      [] kind = "I32" -> <<"2", "1", "4", "7", "4", "8", "3", "6", "4", "8">>
      [] OTHER -> <<"0">>

InRange(kind, text) ==
    /\ Numeral(text)
    /\ DigitsLeq(Magnitude(text),
                 IF Negative(text) THEN MinDigits(kind) ELSE MaxDigits(kind))

\* the node under the editor, and the text in the editor
Edited == Kid(Active, current_row(tail).index)
Buffer == tail.editing.input.value

(***************************************************************************)
(* C13  Integer parsing is exact in the width of the type.  For a node of  *)
(* each of I8, U8, I16, U16, I32, U32: a submitted text that is no numeral *)
(* or that denotes a number outside the range of the type is refused, and  *)
(* the node, the document and the unsaved flag stay as they were; and a    *)
(* text that is accepted leaves the node displaying exactly the number     *)
(* that was entered, never that number clamped or taken modulo 2^w.        *)
(***************************************************************************)
C13_ParseIsWidthExact ==
    (Editing /\ Edited.k \in IntKinds) =>
        LET next == After(State, Key("Enter"))
            after == Kid(current_param(next.base, next.route).p, current_row(tail).index)
        IN  /\ ~InRange(Edited.k, Buffer) =>
                  /\ after = Edited
                  /\ next = [State EXCEPT !.tail.editing.input.error = "[Parse error]"]
            /\ ~next.tail.editing.some =>
                  /\ InRange(Edited.k, Buffer)
                  /\ after.k = Edited.k
                  /\ get_value(after) = Canonical(Buffer)

\* a U32 that holds the greatest number of its type, and the next number
\* has been submitted and refused
C13_Witness ==
    /\ Editing
    /\ Edited.k = "U32"
    /\ Edited.n = Wide(WideMaxHi, WideMaxLo)
    /\ Buffer = <<"4", "2", "9", "4", "9", "6", "7", "2", "9", "6">>
    /\ tail.editing.input.error = "[Parse error]"
    /\ unsaved

EditorOpens == ~tail.editing.some /\ tail'.editing.some

C15_EditorIsSeeded ==
    [][EditorOpens => tail'.editing.input.value = current_row(tail).value]_vars

(***************************************************************************)
(* C16  Single focus.  In every reachable state at most one text is being  *)
(* edited in the whole program: an editor is open only in the tree of the  *)
(* active level, the deepest one, and only in param view, where the filter *)
(* box has no focus; the levels above are frames of the navigation stack,  *)
(* one per level, and a frame holds a position and no editor.  No key      *)
(* leads out of this, the keys the specification does not press included.  *)
(***************************************************************************)
SingleFocus(s) ==
    /\ (IF s.tail.editing.some THEN 1 ELSE 0) + (IF s.filter.input.focused THEN 1 ELSE 0) <= 1
    /\ s.tail.editing.some =>
          /\ s.mode = "ParamView"
          /\ s.tail.editing.input.focused
          /\ s.tail.focused
    /\ s.filter.input.focused <=> s.mode = "RegexEdit"
    /\ \A k \in 1..Len(s.route) : DOMAIN s.route[k] = {"table", "index", "name"}

AnyKey ==
    {Key(code) : code \in {"Up", "Down", "Enter", "Backspace", "Esc", "Left", "Right", "Tab"}}
        \cup {CharKey(c) : c \in {"/", "9", "b", "o"}}
        \cup {CtrlKey(c) : c \in {"o", "s"}}

C16_SingleFocus ==
    Running =>
        /\ SingleFocus(State)
        /\ mode # "FileOpen" =>
              \A event \in AnyKey :
                  After(State, event).status = "running" => SingleFocus(After(State, event))

\* an editor with a text in it, two levels below the root
C16_Witness ==
    /\ Editing
    /\ Len(route) >= 2
    /\ Len(Buffer) > 0
    /\ ~filter.input.focused
    /\ After(State, CtrlKey("o")).mode = "ParamView"

(***************************************************************************)
(* C17  Editing never applies to a composite.  Whenever an editor is open  *)
(* the node under it is a value, no List and no Struct; and Enter on the   *)
(* row of a composite never opens an editor: it navigates into that        *)
(* composite.                                                              *)
(***************************************************************************)
EditsOnlyValues ==
    (Running /\ tail.editing.some) => (HasRow(tail) /\ ~is_parent(Edited))

OnCompositeRow == Browsing /\ HasRow(tail) /\ current_row(tail).is_parent

C17_CompositesAreEnteredNotEdited ==
    /\ []EditsOnlyValues
    /\ [][OnCompositeRow => ~tail'.editing.some]_vars
    /\ [][(OnCompositeRow /\ EnterStep) =>
              /\ status' = "running"
              /\ current_param(base', route').p = Edited]_vars

(***************************************************************************)
(* The state after a sequence of keys.                                     *)
(***************************************************************************)
RECURSIVE AfterKeys(_, _)
AfterKeys(s, keys) ==
    IF Len(keys) = 0 THEN s ELSE AfterKeys(After(s, Head(keys)), Tail(keys))

\* the rows of the level the state shows, derived anew under a filter
Projection(s, regex) == apply_filter(TreeDataNew(current_param(s.base, s.route).p), regex)

(***************************************************************************)
(* C18, as the specification has it.  Filters are per level: a filter set  *)
(* while a child level is active does not filter the parent level after    *)
(* the exit, and the filter of the parent is not applied to the child when *)
(* it is entered.                                                          *)
(***************************************************************************)
Unfiltered == Len(tail.data.rows) = NumKids(Active) /\ filter.input.value = <<>>

C19_RowsAreDerived ==
    Browsing =>
        /\ tail.data = Projection(State, FilterRegex(filter))
        /\ \A j \in 1..Len(tail.data.rows) :
              LET row == tail.data.rows[j]
                  node == Kid(Active, row.index)
              IN  /\ row.name = RowName(Active, row.index)
                  /\ row.kind = node.k
                  /\ row.value = get_value(node)
                  /\ row.is_parent = (node.k \in {"List", "Struct"})

\* a value has been edited and the filter changed since, and a row shows
\* the new value
C19_Witness ==
    /\ Browsing
    /\ unsaved
    /\ Len(filter.regex.pat) > 0
    /\ Len(tail.data.rows) < NumKids(Active)
    /\ \E j \in 1..Len(tail.data.rows) : tail.data.rows[j].value \in {<<"9">>, <<"9", "9">>, <<"-", "9">>}

(***************************************************************************)
(* C20  Filtering is idempotent.  The rows left by a filter are left as    *)
(* they are by the same filter applied again: the same rows, in the same   *)
(* order, with the same source indices.  So it is for the filter in force  *)
(* applied to the rows shown, for each filter of the model applied to all  *)
(* the rows of the active node, and for the filter box left a second time  *)
(* with the text it was left with.                                         *)
(***************************************************************************)
Patterns == {<<>>, <<"b">>, <<"b", "b">>, <<"a">>, <<"0">>, <<"1">>, <<"(", "b", ")">>}

C20_FilterIsIdempotent ==
    Running =>
        /\ apply_filter(tail.data, FilterRegex(filter)) = tail.data \/ mode = "RegexEdit"
        /\ \A pat \in Patterns :
              LET once == apply_filter(TreeDataNew(Active), RegexNew(pat))
              IN  /\ apply_filter(once, RegexNew(pat)) = once
                  /\ \A j \in 1..(Len(once.rows) - 1) : once.rows[j].index < once.rows[j + 1].index
        /\ (Browsing /\ filter.regex.ok /\ filter.input.value = filter.regex.pat) =>
              AfterKeys(State, <<CharKey("/"), Key("Enter")>>) = State

\* a filter that hides the first of two rows that do not match it, one
\* after the other
C20_Witness ==
    /\ Browsing
    /\ NumKids(Active) >= 2
    /\ LET all == TreeDataNew(Active).rows
       IN  \E j \in 1..(Len(all) - 1) :
              /\ ~is_match(FilterRegex(filter), all[j].name)
              /\ ~is_match(FilterRegex(filter), all[j + 1].name)
    /\ filter.regex.ok
    /\ filter.input.value = filter.regex.pat
    /\ AfterKeys(State, <<CharKey("/"), Key("Enter")>>).tail.data = tail.data

(***************************************************************************)
(* Claims on the hash editor, under SpecHash.                              *)
(***************************************************************************)
HexPrefix == <<"0", "x">>

\* the text of the editor
HashValue == hash_input.value

\* the answer to a key in this state
HashAfter(event) == HashInputHandle(hash_input, event, label_map, sorted_labels)

\* the cursors a list of `n` candidates can be highlighted with, as far down
\* as the cursor is moved
Cursors(n) ==
    {NoMatch} \cup {SomeMatch(i) : i \in 0..((IF n <= MaxCursor THEN n ELSE MaxCursor + 1) - 1)}

(***************************************************************************)
(* C21.  Enter on a text that does not begin with "0x" answers Submit, and *)
(* the value to be returned becomes the hash of the text, a label of the   *)
(* map or not; whichever candidate is highlighted, the same hash is        *)
(* submitted.                                                              *)
(***************************************************************************)
C21_LabelSubmitAlwaysSucceeds ==
    (HashOpen /\ ~starts_with(HashValue, HexPrefix)) =>
        /\ HashAfter(Key("Enter")).resp = "Submit"
        /\ HashAfter(Key("Enter")).input.return_value = hash40(HashValue)
        /\ HashAfter(Key("Enter")).input.value = HashValue
        /\ \A m \in Cursors(Len(hash_input.matches)) :
              HashInputHandle([hash_input EXCEPT !.match_num = m], Key("Enter"),
                              label_map, sorted_labels).input.return_value
                  = hash40(HashValue)

\* "alph" was submitted with its first candidate highlighted: the hash
\* returned is the hash of "alph", no label of the map
C21_Witness ==
    /\ response = "Submit"
    /\ HashValue = <<"a", "l", "p", "h">>
    /\ hash_input.match_num = SomeMatch(0)
    /\ hash_input.matches = <<GreekLabels[1], GreekLabels[2]>>
    /\ hash_input.return_value = hash40(<<"a", "l", "p", "h">>)
    /\ hash_input.return_value # opened

(***************************************************************************)
(* C22.  A text that begins with "0x" is read as a literal, whatever the   *)
(* label map holds and whether its lock can be taken: a well-formed        *)
(* literal is submitted as the number its digits write, and on a malformed *)
(* one Enter answers None and changes nothing, so that the editor stays    *)
(* open with its text and the value to be returned is still the hash the   *)
(* editor was opened with.  Well-formed is told from the characters: an    *)
(* optional "+", then one hexadecimal digit at least, at most sixteen of   *)
(* them after the leading zeros.                                           *)
(***************************************************************************)
LiteralDigits(text) ==
    LET rest == SubSeq(text, 3, Len(text))
    IN  IF Len(rest) > 0 /\ rest[1] = "+" THEN SubSeq(rest, 2, Len(rest)) ELSE rest

\* the digits from the first that is no zero on
Significant(digits) ==
    LET zeros == Cardinality({i \in 1..Len(digits) : \A j \in 1..i : digits[j] = "0"})
    IN  SubSeq(digits, zeros + 1, Len(digits))

WellFormedLiteral(text) ==
    /\ starts_with(text, HexPrefix)
    /\ Len(LiteralDigits(text)) > 0
    /\ \A i \in 1..Len(LiteralDigits(text)) : HexVal(LiteralDigits(text)[i]) >= 0
    /\ Len(Significant(LiteralDigits(text))) <= 16

\* the number the digits write, in sixteen digits
LiteralHash(text) ==
    LET sig == Significant(LiteralDigits(text))
    IN  [i \in 1..16 |-> IF i <= 16 - Len(sig) THEN 0 ELSE HexVal(sig[i - (16 - Len(sig))])]

\* the label maps a literal is read under
AnyLabelMaps ==
    {[labels |-> l, poisoned |-> p] : l \in {NoLabels, GreekLabels}, p \in BOOLEAN}

C22_HexLiteralOrStayOpen ==
    (HashOpen /\ starts_with(HashValue, HexPrefix)) =>
        /\ hash_input.return_value = opened
        /\ \A lm \in AnyLabelMaps :
              HashInputHandle(hash_input, Key("Enter"), lm, sorted_labels)
                  = HashAfter(Key("Enter"))
        /\ IF WellFormedLiteral(HashValue)
           THEN /\ HashAfter(Key("Enter")).resp = "Submit"
                /\ HashAfter(Key("Enter")).input.return_value = LiteralHash(HashValue)
                /\ HashAfter(Key("Enter")).input.value = HashValue
           ELSE /\ HashAfter(Key("Enter")).resp = "None"
                /\ HashAfter(Key("Enter")).input = hash_input

\* Enter was pressed on "0xg", and the editor is as it was
C22_Witness ==
    /\ HashOpen
    /\ response = "None"
    /\ HashValue = <<"0", "x", "g">>
    /\ hash_input.return_value = opened
    /\ HashAfter(Key("Enter")).input = hash_input

(***************************************************************************)
(* C23.  While both locks can be taken, the candidates are the labels that *)
(* begin with the text, in the ascending order of the labels, the first    *)
(* MatchLimit of them; with the labels alpha, alphabet, beta and the text  *)
(* "alph" they are alpha, alphabet.                                        *)
(***************************************************************************)
BeginsWithValue(label) == starts_with(label, HashValue)

LabelsWithPrefix == SelectSeq(sorted_labels.labels, BeginsWithValue)

TextKeys ==
    {CharKey(c) : c \in {d \in HashChars : HashTypedSoFar(Append(HashValue, d))}}
        \cup {Key("Backspace")}
        \cup (IF current_match(hash_input).some THEN {Key("Tab")} ELSE {})

\* as the claim has it: after every change of the text no candidate is
\* highlighted
C24_CursorResetsToNone ==
    HashOpen => \A event \in TextKeys : HashAfter(event).input.match_num = NoMatch

\* the text is no literal, both locks can be taken, no label is the text
\* and some label begins with it
UnknownWithCandidates(text) ==
    /\ ~starts_with(text, HexPrefix)
    /\ ~label_map.poisoned /\ ~sorted_labels.poisoned
    /\ \A i \in 1..Len(label_map.labels) : label_map.labels[i] # text
    /\ \E i \in 1..Len(sorted_labels.labels) : starts_with(sorted_labels.labels[i], text)

\* C24, as the code has it: after every change of the text the cursor is
\* set from the new text alone, wherever it was: on the first candidate when
\* the text is an unknown label that candidates begin with, and on none
\* otherwise
C24_CursorSetFromNewText ==
    HashOpen =>
        \A event \in TextKeys :
            \A m \in Cursors(Len(hash_input.matches)) :
                LET before == [hash_input EXCEPT !.match_num = m]
                    after == HashInputHandle(before, event, label_map, sorted_labels).input
                IN  (event.code = "Tab" => current_match(before).some) =>
                        after.match_num =
                            IF UnknownWithCandidates(after.value) THEN SomeMatch(0)
                            ELSE NoMatch

\* a key left the text "alp", an unknown label that two labels begin with:
\* the first is highlighted, and "h" highlights the first again, wherever
\* the cursor was
C24_Witness ==
    /\ HashOpen
    /\ response = "Handled"
    /\ HashValue = <<"a", "l", "p">>
    /\ hash_input.match_num = SomeMatch(0)
    /\ Len(hash_input.matches) = 2
    /\ HashAfter(CharKey("h")).input.match_num = SomeMatch(0)
    /\ HashInputHandle([hash_input EXCEPT !.match_num = SomeMatch(1)], CharKey("h"),
                       label_map, sorted_labels).input.match_num = SomeMatch(0)

(***************************************************************************)
(* C25.  The cursor is none or the index of a candidate, and none when     *)
(* there is no candidate.  Down moves it one candidate down and leaves it  *)
(* on the last; Up moves it one candidate up and leaves it on the first;   *)
(* neither goes round, and neither touches the text or the candidates.     *)
(* From none, Down highlights the first candidate and Up highlights none.  *)
(***************************************************************************)
\* the cursors of the list of candidates, as far down as the cursor is
\* moved, and the last
CursorsAndLast ==
    Cursors(Len(hash_input.matches))
        \cup (IF Len(hash_input.matches) > 0
              THEN {SomeMatch(Len(hash_input.matches) - 1)} ELSE {})

C25_CursorInRangeAndClamped ==
    /\ hash_input.match_num.some =>
          (hash_input.match_num.n >= 0 /\ hash_input.match_num.n < Len(hash_input.matches))
    /\ \A m \in CursorsAndLast :
          LET before == [hash_input EXCEPT !.match_num = m]
              down == HashInputHandle(before, Key("Down"), label_map, sorted_labels).input
              up == HashInputHandle(before, Key("Up"), label_map, sorted_labels).input
              last == Len(hash_input.matches) - 1
          IN  /\ down = [before EXCEPT !.match_num = down.match_num]
              /\ up = [before EXCEPT !.match_num = up.match_num]
              /\ down.match_num =
                    IF last < 0 THEN NoMatch
                    ELSE IF ~m.some THEN SomeMatch(0)
                    ELSE SomeMatch(IF m.n + 1 > last THEN last ELSE m.n + 1)
              /\ up.match_num =
                    IF last < 0 \/ ~m.some THEN NoMatch
                    ELSE SomeMatch(IF m.n - 1 < 0 THEN 0 ELSE m.n - 1)

\* Down was pressed to the last of the two candidates of "alph", and
\* another Down leaves the cursor there
C25_Witness ==
    /\ HashOpen
    /\ response = "Handled"
    /\ HashValue = <<"a", "l", "p", "h">>
    /\ Len(hash_input.matches) = 2
    /\ hash_input.match_num = SomeMatch(1)
    /\ HashAfter(Key("Down")).input = hash_input

(***************************************************************************)
(* C26.  Tab with a candidate highlighted puts the candidate in place of   *)
(* the text and computes the candidates again, those of the label; the     *)
(* text then resolves to the hash of the label, and Enter submits it (for  *)
(* "alph" and its first candidate, the hash of "alpha").  Tab with no      *)
(* candidate highlighted changes nothing.                                  *)
(***************************************************************************)
\* the first MatchLimit labels that begin with the text, in their order
FirstWithPrefix(text) ==
    LET all == SelectSeq(sorted_labels.labels, LAMBDA label : starts_with(label, text))
    IN  SubSeq(all, 1, IF Len(all) < MatchLimit THEN Len(all) ELSE MatchLimit)

C26_TabAcceptsCandidate ==
    HashOpen =>
        \A m \in CursorsAndLast :
            LET before == [hash_input EXCEPT !.match_num = m]
                tab == HashInputHandle(before, Key("Tab"), label_map, sorted_labels)
                after == tab.input
                enter == HashInputHandle(after, Key("Enter"), label_map, sorted_labels)
            IN  /\ tab.resp = "Handled"
                /\ IF m.some
                   THEN LET label == hash_input.matches[m.n + 1] IN
                        /\ after.value = label
                        /\ after.return_value = hash_input.return_value
                        /\ after.matches =
                              IF label_map.poisoned \/ sorted_labels.poisoned THEN <<>>
                              ELSE FirstWithPrefix(label)
                        /\ after.match_num = NoMatch
                        /\ HashInputStatus(after, label_map).kind
                              = IF label_map.poisoned THEN "LabelsPoisoned" ELSE "LabelExists"
                        /\ HashInputStatus(after, label_map).hash = hash40(label)
                        /\ enter.resp = "Submit"
                        /\ enter.input.return_value = hash40(label)
                   ELSE after = before

\* "alph" is in the editor with its first candidate highlighted: Tab makes
\* the text "alpha", which resolves to 0x05d0e0396a
C26_Witness ==
    /\ HashOpen
    /\ response = "Handled"
    /\ HashValue = <<"a", "l", "p", "h">>
    /\ hash_input.match_num = SomeMatch(0)
    /\ HashAfter(Key("Tab")).input.value = <<"a", "l", "p", "h", "a">>
    /\ HashAfter(Key("Tab")).input.matches = <<GreekLabels[1], GreekLabels[2]>>
    /\ HashInputStatus(HashAfter(Key("Tab")).input, label_map) =
          [kind |-> "LabelExists",
           hash |-> <<0, 0, 0, 0, 0, 0, 0, 5, 13, 0, 14, 0, 3, 9, 6, 10>>]

(***************************************************************************)
(* C27.  When the lock of the label map is poisoned, a text that does not  *)
(* begin with "0x" still resolves, to the hash of the text, as             *)
(* LabelsPoisoned, and Enter submits that hash.  When either lock is       *)
(* poisoned, every change of the text leaves no candidate.  Every key is   *)
(* answered, with one of the four responses and a cursor that is none or   *)
(* on a candidate.                                                         *)
(***************************************************************************)
\* the keys of the editor
HashKeys ==
    TextKeys \cup {Key(code) : code \in {"Tab", "Down", "Up", "Enter", "Esc", "Left"}}

Loaded(s, d) ==
    /\ s.base = d
    /\ s.route = <<>>
    /\ s.mode = "ParamView"
    /\ s.explorer = "None"
    /\ ~s.unsaved
    /\ s.filter.input.value = <<>>
    /\ ~s.filter.input.focused
    /\ s.filter.last_input = <<>>
    /\ s.filter.regex = [ok |-> TRUE, pat |-> <<>>]
    /\ s.tail.selection = 0
    /\ s.tail.focused
    /\ ~s.tail.editing.some
    /\ Len(s.tail.data.rows) = NumKids(d)
    /\ \A i \in 1..NumKids(d) : s.tail.data.rows[i].index = i - 1

C28_LoadResetsEverything ==
    /\ [](\A d \in Docs : Loaded(set_param(State, d), d))
    /\ [][(LoadStep /\ explorer' = "None" /\ (base' # base \/ route' # route
                                              \/ filter' # filter \/ unsaved' # unsaved))
            => \E d \in Docs : Loaded(State', d)]_vars

\* the file explorer is open to load a document while the document is
\* unsaved, a child is entered and a filter is set; loading Doc1 resets it
C28_Witness ==
    /\ Running
    /\ mode = "FileOpen" /\ explorer = "Open"
    /\ unsaved
    /\ Len(route) > 0
    /\ filter.regex.pat # <<>>
    /\ Loaded(set_param(State, Doc1), Doc1)

(***************************************************************************)
(* C29.  No key makes the App panic: the status is never "panicked"; and   *)
(* while it runs, the frames lead to a composite node, every row shown has *)
(* the source index of a child of the node the App works on, and a row is  *)
(* selected whenever rows are shown.                                       *)
(***************************************************************************)
NotPanicked == status # "panicked"

FramesAreComposite ==
    Running => (current_param(base, route).ok /\ is_parent(Active)
                /\ WalkSrc(base, route).ok /\ is_parent(WalkSrc(base, route).p))

RowsAddressChildren ==
    (Running /\ current_param(base, route).ok /\ is_parent(Active)) =>
        \A j \in 1..Len(tail.data.rows) : tail.data.rows[j].index < NumKids(Active)

SelectionIsRow == (Running /\ Len(tail.data.rows) > 0) => HasRow(tail)

C29_NeverPanics ==
    NotPanicked /\ FramesAreComposite /\ RowsAddressChildren /\ SelectionIsRow

(***************************************************************************)
(* C30.  The unsaved flag is FALSE when the App starts.  A key sets it     *)
(* exactly when it is Enter in an open editor whose text parses for the    *)
(* node under edit, the submit that writes the node; no other key in any   *)
(* mode sets it: not Up or Down, not Enter on a composite row or           *)
(* Backspace, not a key of the filter box, not Esc in the editor, not      *)
(* Enter on a text that does not parse.  It is cleared in mode FileOpen    *)
(* alone, by a load or a save; and every step that changes the document    *)
(* leaves it set, unless it loads one.                                     *)
(***************************************************************************)
\* Enter is pressed in an open editor whose text parses
SubmitWrites(event) ==
    /\ Editing
    /\ event = Key("Enter")
    /\ ParseInto(Kid(Active, current_row(tail).index), tail.editing.input.value).ok

UnsavedByKeys ==
    Running =>
        IF mode = "FileOpen"
        THEN \A event \in AnyKey : \A ext \in Exts(State, event) :
                handle_event(State, event, ext).unsaved =
                    IF \/ ext.resp = "Open" /\ ext.loaded.ok
                       \/ ext.resp = "Save" /\ ext.saved
                    THEN FALSE ELSE unsaved
        ELSE \A event \in AnyKey :
                After(State, event).unsaved = (unsaved \/ SubmitWrites(event))

UnsavedStep ==
    /\ (unsaved' /\ ~unsaved) =>
          /\ SubmitWrites(Key("Enter"))
          /\ ~tail'.editing.some
          /\ route' = route
          /\ Kid(current_param(base', route').p, current_row(tail).index)
                = ParseInto(Kid(Active, current_row(tail).index),
                            tail.editing.input.value).child
    /\ (unsaved /\ ~unsaved') => mode = "FileOpen"
    /\ base' # base => (unsaved' \/ LoadStep)

C30_UnsavedExactlyByEdits ==
    /\ ~unsaved
    /\ [](UnsavedByKeys)
    /\ [][UnsavedStep]_vars

\* a submitted edit has changed the document, the flag is set, and Down
\* and "/" leave it set
C30_Witness ==
    /\ Browsing
    /\ unsaved
    /\ base \notin Docs
    /\ After(State, Key("Down")).unsaved
    /\ After(State, CharKey("/")).unsaved

(***************************************************************************)
(* C31.  Shift+Up and Shift+Down on the row of a Bool or of a number step  *)
(* the value of the node by one, round the bounds of its type, open no     *)
(* editor and leave the selection; on a row of another kind they change    *)
(* nothing.                                                                *)
(***************************************************************************)
\* the node one step up (by = 1) or down (by = -1), round the bounds
Stepped(node, by) ==
    IF node.k = "Bool" THEN PBool(~node.b)
    ELSE IF node.k \in IntKinds
    THEN PInt(node.k,
              IF by = 1 THEN (IF node.n = IntMax(node.k) THEN IntMin(node.k) ELSE node.n + 1)
              ELSE (IF node.n = IntMin(node.k) THEN IntMax(node.k) ELSE node.n - 1))
    ELSE node

ShiftStepsValue(code, by) ==
    LET row == current_row(tail)
        next == After(State, ShiftKey(code))
    IN  IF is_incremental(row.kind)
        THEN /\ next.status = "running"
             /\ current_param(next.base, next.route).ok
             /\ Kid(current_param(next.base, next.route).p, row.index)
                    = Stepped(Kid(Active, row.index), by)
             /\ ~next.tail.editing.some
             /\ next.tail.selection = tail.selection
             /\ next.route = route
        ELSE next = State

C31_ShiftCyclesValue ==
    (Browsing /\ HasRow(tail) /\ current_param(base, route).ok) =>
        (ShiftStepsValue("Up", 1) /\ ShiftStepsValue("Down", -1))

\* what the code does: Shift+Up and Shift+Down change nothing at all
ShiftIsInert ==
    Browsing =>
        /\ After(State, ShiftKey("Up")) = State
        /\ After(State, ShiftKey("Down")) = State
        /\ HasRow(tail) =>
              TreeHandle(tail, ShiftKey("Up")).resp
                  = IF is_incremental(current_row(tail).kind) THEN "IncValue" ELSE "Handled"

(***************************************************************************)
(* C32.  With unsaved edits the App exits from the exit confirmation       *)
(* answered Yes alone.  Esc while browsing with unsaved edits opens the    *)
(* confirmation, No selected; Enter on No, and Esc, answer No, which gives *)
(* back param view with the document, the frames, the tree and the unsaved *)
(* flag as they were; Yes is selected by Left alone.  The file explorer is *)
(* opened to load over unsaved edits from the open confirmation answered   *)
(* Yes alone.                                                              *)
(***************************************************************************)
\* the state with the confirmation dismissed
Dismissed == [State EXCEPT !.mode = "ParamView", !.confirm = FALSE]

ConfirmGuardsUnsaved ==
    /\ (Browsing /\ unsaved) =>
          /\ After(State, Key("Esc")) = [State EXCEPT !.mode = "ConfirmExit", !.confirm = FALSE]
          /\ After(State, CtrlKey("o")) = [State EXCEPT !.mode = "ConfirmOpen", !.confirm = FALSE]
    /\ (Running /\ mode \in {"ConfirmExit", "ConfirmOpen"}) =>
          /\ unsaved
          /\ After(State, Key("Esc")) = Dismissed
          /\ ~confirm => After(State, Key("Enter")) = Dismissed
          /\ confirm => After(State, Key("Enter")) =
                IF mode = "ConfirmExit" THEN [State EXCEPT !.status = "exited"]
                ELSE [State EXCEPT !.mode = "FileOpen", !.explorer = "Open", !.confirm = FALSE]
          /\ \A event \in AnyKey \ {Key("Esc"), Key("Enter")} :
                /\ After(State, event) = [State EXCEPT !.confirm = After(State, event).confirm]
                /\ After(State, event).confirm =
                      IF event = Key("Left") THEN TRUE
                      ELSE IF event = Key("Right") THEN FALSE ELSE confirm

ConfirmStep ==
    /\ (unsaved /\ status = "running" /\ status' = "exited") =>
          (mode = "ConfirmExit" /\ confirm)
    /\ (unsaved /\ mode # "FileOpen" /\ mode' = "FileOpen" /\ explorer' = "Open") =>
          (mode = "ConfirmOpen" /\ confirm)
    /\ (mode' \in {"ConfirmExit", "ConfirmOpen"} /\ mode # mode') =>
          (~confirm' /\ unsaved /\ mode = "ParamView")

C32_UnsavedExitNeedsYes == [](ConfirmGuardsUnsaved) /\ [][ConfirmStep]_vars

\* the App has exited with unsaved edits, from the exit confirmation
C32_Witness ==
    /\ status = "exited"
    /\ unsaved
    /\ mode = "ConfirmExit"
    /\ confirm

(***************************************************************************)
(* Claims on Param, under SpecParam.                                       *)
(***************************************************************************)
\* the document the levels make when each level entered is put back in the
\* slot it was taken from, from level k inwards
RECURSIVE Fold(_, _)
Fold(levels, k) ==
    IF k = Len(levels) THEN levels[k].param
    ELSE SetKid(levels[k].param, levels[k].state.n, Fold(levels, k + 1))

Document == Fold(param_levels, 1)

\* level k has the level k + 1 entered from its selected child, whose slot
\* holds the empty composite of the variant of the child
SlotIsTaken(levels, k) ==
    /\ levels[k].state.some
    /\ levels[k].state.n < NumKids(levels[k].param)
    /\ is_parent(Kid(levels[k].param, levels[k].state.n))
    /\ Kid(levels[k].param, levels[k].state.n).k = levels[k + 1].param.k
    /\ NumKids(Kid(levels[k].param, levels[k].state.n)) = 0

(***************************************************************************)
(* C33.  While a level has the level of a child entered, the slot of the   *)
(* child holds the empty composite of the child's variant and the level is *)
(* selected on it; an event sent to the levels leaves every level but the  *)
(* innermost as it was, its selection and its other children; the slot is  *)
(* filled with what the level of the child holds exactly when that level   *)
(* answers Exit; and the levels folded make one document, which no key     *)
(* sent to the tables changes.                                             *)
(***************************************************************************)
LevelsStep ==
    LET n == Len(param_levels)
        m == Len(param_levels')
    IN  /\ m \in {n - 1, n, n + 1}
        /\ \A k \in 1..(n - 1) : k < m => param_levels'[k] = param_levels[k]
        /\ m = n + 1 =>
              /\ Tabling /\ param_levels[n].state.some
              /\ param_levels'[m].param = Kid(param_levels[n].param, param_levels[n].state.n)
              /\ param_levels'[n] =
                    [param_levels[n] EXCEPT !.param =
                        SetKid(@, param_levels[n].state.n, Taken(param_levels'[m].param))]
        /\ m = n - 1 =>
              /\ Tabling
              /\ ParamHandleAt(param_levels, param_selected, n, Key("Backspace"), NoAnswer).resp
                    = "Exit"
              /\ param_resp' = "Handled"
              /\ param_levels'[m] =
                    [param_levels[m] EXCEPT !.param =
                        SetKid(@, param_levels[m].state.n, param_levels[n].param)]
        /\ (m = n /\ n > 1) =>
              SlotIsTaken(param_levels', n - 1)
        /\ Tabling => Document' = Document

\* Backspace in the table of an entered level puts the level back
ExitPutsBack ==
    (Tabling /\ Len(param_levels) > 1) =>
        LET r == ParamHandle(param_levels, param_selected, Key("Backspace"), NoAnswer)
        IN  /\ Len(r.levels) = Len(param_levels) - 1
            /\ r.resp = "Handled"
            /\ Fold(r.levels, 1) = Document

C33_TakenSlotAndPutBack ==
    /\ [](\A k \in 1..(Len(param_levels) - 1) : SlotIsTaken(param_levels, k))
    /\ []ExitPutsBack
    /\ [][LevelsStep]_vars

\* two levels are entered, a value of the innermost has been edited, and
\* both slots hold the empty composite
C33_Witness ==
    /\ Len(param_levels) = 3
    /\ param_resp = "Handled"
    /\ Tabling
    /\ SlotIsTaken(param_levels, 1) /\ SlotIsTaken(param_levels, 2)
    /\ NumKids(param_levels[3].param) > 0
    /\ Document \notin ParamDocs

(***************************************************************************)
(* C34.  While a value is edited in the tree, every key goes to the        *)
(* editor.  Whatever the key, the mode, the frames, the filter, the rows   *)
(* shown and the row selected are as before, no confirmation or explorer   *)
(* opens and the App does not exit; the document and the unsaved flag      *)
(* change on Enter with a text that parses alone; Esc closes the editor    *)
(* and changes nothing else; "/", Ctrl+O and Ctrl+S are typed into the     *)
(* text.                                                                   *)
(***************************************************************************)
EditorKeys ==
    AnyKey \cup {ShiftKey("Up"), ShiftKey("Down")}

C34_EditorConsumesEvents ==
    /\ (Running /\ tail.editing.some) => Editing
    /\ Editing =>
          \A event \in EditorKeys :
              LET next == After(State, event) IN
              /\ next.status = "running"
              /\ next.mode = "ParamView"
              /\ next.confirm = confirm
              /\ next.explorer = explorer
              /\ next.route = route
              /\ next.filter = filter
              /\ next.tail.selection = tail.selection
              /\ next.tail.focused = tail.focused
              /\ Len(next.tail.data.rows) = Len(tail.data.rows)
              /\ IF SubmitWrites(event)
                 THEN /\ next.unsaved
                      /\ ~next.tail.editing.some
                      /\ \A j \in 1..Len(tail.data.rows) :
                            j # tail.selection + 1 =>
                                next.tail.data.rows[j] = tail.data.rows[j]
                 ELSE /\ next.base = base
                      /\ next.unsaved = unsaved
                      /\ next.tail.data = tail.data
              /\ event = Key("Esc") => next = [State EXCEPT !.tail.editing = NoEditing]
              /\ event.code = "Char" =>
                    next = [State EXCEPT !.tail.editing.input.value = Append(@, event.c)]

\* a value is edited two levels down, under a filter, with unsaved edits:
\* Esc would exit or ask, and Ctrl+O would ask, were the tree browsed
C34_Witness ==
    /\ Editing
    /\ unsaved
    /\ Len(route) > 0
    /\ filter.regex.pat # <<>>
    /\ Len(tail.editing.input.value) > 0
    /\ After(State, CtrlKey("o")).mode = "ParamView"
    /\ After([State EXCEPT !.tail.editing = NoEditing], CtrlKey("o")).mode = "ConfirmOpen"

(***************************************************************************)
(* Claims on the document, under SpecDocument.                             *)
(***************************************************************************)
\* the shape of a node: its variant, and for a composite the shapes of its
\* children in their order, a struct's with their keys
RECURSIVE Shape(_)
Shape(node) ==
    IF is_parent(node)
    THEN [k |-> node.k,
          c |-> [i \in 1..NumKids(node) |->
                    [h |-> IF node.k = "Struct" THEN node.c[i].h ELSE <<>>,
                     s |-> Shape(Kid(node, i - 1))]]]
    ELSE [k |-> node.k, c |-> <<>>]

\* how many values differ between two documents of one shape
RECURSIVE Differing(_, _)
RECURSIVE DifferingFrom(_, _, _)
Differing(a, b) ==
    IF is_parent(a) THEN DifferingFrom(a, b, 0)
    ELSE IF a = b THEN 0 ELSE 1
DifferingFrom(a, b, i) ==
    IF i >= NumKids(a) THEN 0
    ELSE Differing(Kid(a, i), Kid(b, i)) + DifferingFrom(a, b, i + 1)

(***************************************************************************)
(* C35.  No step but a load changes the shape of the document, in the App  *)
(* and in a Param with its entered levels folded: every node keeps its     *)
(* variant, every composite its children in number and order and every     *)
(* struct its keys.  A step that changes the document is the submit of an  *)
(* editor, and changes the value of one node that is no composite.         *)
(***************************************************************************)
ShapeStep ==
    /\ ~LoadStep =>
          /\ Shape(base') = Shape(base)
          /\ Differing(base, base') <= 1
          /\ base' # base => (SubmitWrites(Key("Enter")) /\ Differing(base, base') = 1)
    /\ Shape(Document') = Shape(Document)
    /\ Differing(Document, Document') <= 1
    /\ Document' # Document =>
          /\ ~Tabling
          /\ param_selected' = NoEditor
          /\ Differing(Document, Document') = 1

C35_ShapeIsKept == [][ShapeStep]_vars

\* a Param with a level entered and a value changed in it
C35_Witness ==
    /\ Len(param_levels) = 2
    /\ Tabling
    /\ param_resp = "Handled"
    /\ \E d \in ParamDocs :
          /\ Shape(Document) = Shape(d)
          /\ Differing(d, Document) >= 1
          /\ Differing(d.c[Len(d.c)].p, param_levels[2].param) >= 1

(***************************************************************************)
(* C36.  The value HashInput is to return changes only on Enter with a     *)
(* text that can be resolved.  While the editor is open the value is the   *)
(* hash it was opened with; a character, Backspace, Down, Up, Tab, Esc and *)
(* any other key leave it so, and so does Enter on a malformed hex         *)
(* literal.  Enter on any other text answers Submit with the hash of the   *)
(* text as the value.  After Cancel the value is the hash opened with.     *)
(***************************************************************************)
C36_ValueChangesOnlyOnEnter ==
    /\ response # "Submit" => HashInputValue(hash_input) = opened
    /\ HashOpen =>
          /\ \A event \in HashKeys \ {Key("Enter")} :
                /\ HashInputValue(HashAfter(event).input) = opened
                /\ HashAfter(event).resp # "Submit"
          /\ IF HashInputStatus(hash_input, label_map).kind = "HashInvalid"
             THEN /\ HashInputValue(HashAfter(Key("Enter")).input) = opened
                  /\ HashAfter(Key("Enter")).resp = "None"
             ELSE /\ HashInputValue(HashAfter(Key("Enter")).input)
                        = HashInputStatus(hash_input, label_map).hash
                  /\ HashAfter(Key("Enter")).resp = "Submit"

\* the editor was opened on the hash of "c"; "alpha" was typed to "alph" and
\* its candidate accepted with Tab, and the value is still the hash of "c"
C36_Witness ==
    /\ HashOpen
    /\ response = "Handled"
    /\ opened = hash40(<<"c">>)
    /\ HashValue = <<"a", "l", "p", "h", "a">>
    /\ HashInputValue(hash_input) = hash40(<<"c">>)
    /\ HashInputValue(HashAfter(Key("Enter")).input) = hash40(<<"a", "l", "p", "h", "a">>)
    /\ hash40(<<"a", "l", "p", "h", "a">>) # hash40(<<"c">>)

(***************************************************************************)
(* Claims on the filter box, under Spec.                                   *)
(***************************************************************************)
\* the filter in force: the regex, the text shown and the rows of the level
Filtering(s) ==
    [regex |-> FilterRegex(s.filter),
     text  |-> s.filter.input.value,
     rows  |-> s.tail.data.rows]

\* the filter in force after Esc in this state
Cancelled(s) == Filtering(After(s, Key("Esc")))

\* the filter box is opened: Cancel would leave the filter as it is now
OpenStep ==
    (Running /\ mode = "ParamView" /\ mode' = "RegexEdit") =>
        /\ Cancelled(State') = Filtering(State)
        /\ After(State', Key("Esc")).mode = "ParamView"

\* a key inside the filter box leaves the rows as they are
RowsKeptStep ==
    (Running /\ mode = "RegexEdit" /\ mode' = "RegexEdit") =>
        tail'.data.rows = tail.data.rows

\* a key inside the filter box leaves what Cancel restores as it is
CancelKeptStep ==
    (Running /\ mode = "RegexEdit" /\ mode' = "RegexEdit") =>
        Cancelled(State') = Cancelled(State)

\* Enter on a text that is no regex keeps the box open, with an error, and
\* the tree as it is
RejectedSubmit ==
    (Running /\ mode = "RegexEdit" /\ ~RegexNew(filter.input.value).ok) =>
        LET next == After(State, Key("Enter"))
        IN  /\ next.mode = "RegexEdit"
            /\ next.status = "running"
            /\ next.filter.input.error # "None"
            /\ next.filter.input.focused
            /\ next.tail = tail
            /\ next.base = base /\ next.route = route

(***************************************************************************)
(* C37.  Cancel of the filter box leaves filtering as it was before the    *)
(* box was opened: whatever was typed and whatever submit was rejected in  *)
(* the box, after Esc the regex in force and the text shown are those of   *)
(* the filter accepted last and the rows are those shown before.  A submit *)
(* that is rejected keeps the box open with an error and the rows as they  *)
(* are.                                                                    *)
(***************************************************************************)
C37_CancelRestoresFilter ==
    /\ [][OpenStep /\ RowsKeptStep /\ CancelKeptStep]_vars
    /\ []RejectedSubmit

\* what holds of Cancel: it restores the text submitted last, accepted or
\* not, and the level is filtered by the regex of that text, by no regex
\* when it is none
CancelRestoresLastSubmitted ==
    (Running /\ mode = "RegexEdit") =>
        LET next == After(State, Key("Esc"))
        IN  /\ next.mode = "ParamView"
            /\ next.filter.input.value = filter.last_input
            /\ FilterRegex(next.filter) = FilterRegex(filter)
            /\ FilterRegex(filter) = RegexNew(filter.last_input)
            /\ next.tail.data = Projection(State, FilterRegex(filter))

\* what holds of the steps: opening the box and the keys inside it leave
\* the rows as they are, and Cancel right after the opening changes nothing
OpenAndRowsKept == [][OpenStep /\ RowsKeptStep]_vars

\* the filter "b" was in force; "b(" was rejected in the box and the box
\* left with Esc: no filter is in force and the box shows "b("
C37_Lost ==
    /\ Running /\ mode = "ParamView"
    /\ filter.input.value = <<"b", "(">>
    /\ ~FilterRegex(filter).ok
    /\ Len(tail.data.rows) = NumKids(Active)
    /\ Visible(Active, RegexNew(<<"b">>)) # Visible(Active, FilterRegex(filter))

(***************************************************************************)
(* Claims on the Explorer, under SpecExplorer.                             *)
(***************************************************************************)
\* the keys of the explorer
ExpKeys ==
    {Key(code) : code \in {"Up", "Down", "Enter", "Backspace", "Esc", "Left", "Right", "Tab"}}
        \cup {CharKey(c) : c \in ExpChars \cup {"/"}}

\* the answer to a key in this state
ExpAfter(event) == ExplorerHandle(exp, event)

(***************************************************************************)
(* C38.  The explorer answers Save(path) for a path that is a file on the  *)
(* disk only to Enter in the overwrite confirmation with Yes selected, the *)
(* path being the one the confirmation was opened for.  The confirmation   *)
(* opens with No selected; Enter on No, Esc and Backspace close it and     *)
(* answer Handled.  An explorer in Open mode never answers Save and never  *)
(* opens the confirmation.                                                 *)
(***************************************************************************)
C38_SaveOverFileNeedsYes ==
    /\ (exp_resp.kind = "Save" /\ is_file(exp_resp.path)) => exp.mode = "Save"
    /\ exp.mode = "Open" => exp_resp.kind # "Save" /\ ~exp.confirm_overwrite.some
    /\ ExpOpen => \A event \in ExpKeys :
          LET now == exp.confirm_overwrite
              next == ExpAfter(event).explorer.confirm_overwrite
              resp == ExpAfter(event).resp
          IN  /\ (resp.kind = "Save" /\ is_file(resp.path)) =>
                    /\ now.some /\ now.overwrite
                    /\ event = Key("Enter")
                    /\ resp.path = now.path
              /\ resp.kind = "Save" => exp.mode = "Save"
              /\ (next.some /\ ~now.some) => ~next.overwrite /\ is_file(next.path)
              /\ (now.some /\ (event \in {Key("Esc"), Key("Backspace")}
                                \/ (event = Key("Enter") /\ ~now.overwrite))) =>
                    /\ resp.kind = "Handled"
                    /\ ~next.some

\* the name f was typed in the root, where f is a file, and Save answered
\* for it
C38_Witness ==
    /\ exp_resp = [kind |-> "Save", path |-> <<<<"f">>>>]
    /\ exp.input.value = <<"f">>
    /\ exp.input_active
    /\ is_file(exp_resp.path)
    /\ ~exp.confirm_overwrite.some

(***************************************************************************)
(* Claims on saving and opening, under Spec.                               *)
(***************************************************************************)
\* the App after the explorer has answered Save(path) and prc::save has
\* succeeded or failed
AfterSave(saved) ==
    handle_event(State, Key("Enter"), [NoExt EXCEPT !.resp = "Save", !.saved = saved])

\* the App after the explorer has answered Open(path) and prc::open has
\* failed
AfterFailedOpen ==
    handle_event(State, Key("Enter"), [NoExt EXCEPT !.resp = "Open"])

\* a step that leaves the explorer in Save mode for the param view
SavingStep == mode = "FileOpen" /\ explorer = "Save" /\ mode' = "ParamView"

(***************************************************************************)
(* C39.  A save leaves the document, the stack, the tree with its          *)
(* selection and the filter as they are; it clears the unsaved flag when   *)
(* it succeeds and leaves the flag as it is when it fails; either way the  *)
(* App is in the param view after it.  An open that fails leaves the       *)
(* document, the stack and the flag as they are.                           *)
(***************************************************************************)
C39_SaveAndFailedOpenKeepState ==
    /\ [](Running /\ mode = "FileOpen" /\ explorer = "Save" =>
            \A saved \in BOOLEAN :
                /\ AfterSave(saved).base = base
                /\ AfterSave(saved).route = route
                /\ AfterSave(saved).tail = tail
                /\ AfterSave(saved).filter = filter
                /\ AfterSave(saved).status = "running"
                /\ AfterSave(saved).mode = "ParamView"
                /\ AfterSave(saved).unsaved = (unsaved /\ ~saved))
    /\ [](Running /\ mode = "FileOpen" /\ explorer = "Open" =>
            /\ AfterFailedOpen.base = base
            /\ AfterFailedOpen.route = route
            /\ AfterFailedOpen.unsaved = unsaved
            /\ AfterFailedOpen.status = "running")
    /\ [][SavingStep =>
            /\ base' = base /\ route' = route /\ tail' = tail /\ filter' = filter
            /\ unsaved' => unsaved]_vars
    /\ [][(mode = "FileOpen" /\ mode' = "FileOpen") =>
            /\ base' = base /\ route' = route /\ tail' = tail /\ filter' = filter
            /\ unsaved' = unsaved]_vars

\* a document that was edited in a level entered, under a filter, and
\* saved: it is no document of a file as loaded, and the flag is clear
C39_Witness ==
    /\ Running /\ mode = "ParamView"
    /\ ~unsaved
    /\ base \notin Docs
    /\ Len(route) > 0
    /\ filter.input.value # <<>>

(***************************************************************************)
(* Claims on modulo.rs, under SpecMod.                                     *)
(***************************************************************************)
\* the numbers of the type
InType(values) == \A v \in values : v \in 0..ModMax

(***************************************************************************)
(* C40.  For every augend a and addend b of the type and every modulus m   *)
(* but 0, add_mod(a, b, m) is (a + b) mod m and sub_mod(a, b, m) is        *)
(* (a - b) mod m, over the integers, and every addition and subtraction    *)
(* made on the way gives a number of the type: none overflows and none     *)
(* goes below 0, the branch of the complements included.                   *)
(***************************************************************************)
C40_ModularSumAndDifference ==
    /\ mod_out.op = "add_mod" =>
          /\ mod_out.value = (mod_a + mod_b) % mod_m
          /\ InType(add_mod_steps(mod_a, mod_b, mod_m, ModMax))
    /\ mod_out.op = "sub_mod" =>
          /\ mod_out.value = (mod_a - mod_b) % mod_m
          /\ InType(sub_mod_steps(mod_a, mod_b, mod_m, ModMax))
    /\ mod_out.op = "compliment" =>
          /\ mod_out.value = (0 - mod_a) % mod_m
          /\ InType(compliment_steps(mod_a, mod_m))

\* a sum that is more than the type holds: the branch of the complements
C40_Witness ==
    /\ mod_out.op = "add_mod"
    /\ (mod_a % mod_m) + (mod_b % mod_m) > ModMax
    /\ mod_out.value = (mod_a % mod_m) + (mod_b % mod_m) - mod_m
    /\ mod_out.value < mod_m

=============================================================================
